---- MODULE Spec2Model ----
(***************************************************************************)
(* Gomoku (five-in-a-row) engine reachable through GTP.                    *)
(*   assignment3/gtp_connection.py : heuristic policy engine               *)
(*   assignment2/gtp_connection.py : deadline-bounded exhaustive solver    *)
(* The Board class (board.py / board_util.py) is not part of src/; its     *)
(* operations are modelled from sections 3 and 4.1 of the specification.   *)
(***************************************************************************)
EXTENDS Integers, Sequences, FiniteSets, TLC

(* ---------------- colours and sentinels ---------------- *)
EMPTY == 0
BLACK == 1
WHITE == 2
BORDER == 3
\* Python's None, returned by win_modified when no cell completes five.
None == -1
\* self.N, the number of rollouts of random().
N == 10

(* ---------------- bounds of the model ---------------- *)
\* side length of the boards drawn by Init (boardsize)
BoardSize == 6
\* largest number of empty cells on a board drawn by Init
MaxEmpty == 4
\* largest number of clock reads of one solve that may precede the deadline
MaxClock == 6
\* largest number of solve commands in one behaviour
MaxSolves == 2
\* largest rotation applied by a shuffle
MaxShift == 1
\* largest number of commands of one game
MaxCommands == 2
\* side length of the small board a solve is followed on call by call
Size3 == 3
\* largest number of empty cells of a board whose search is one step
Fold3 == 5

(* ---------------- Board: geometry ---------------- *)
\* row stride of the flattened grid
NS(n) == n + 1
\* length of the flattened store
MaxPoint(n) == n * n + 3 * (n + 1)
\* index of the interior cell (row, col), both in 1..n
coord_to_point(row, col, n) == row * NS(n) + col
Points(n) == 0 .. (MaxPoint(n) - 1)
IsInterior(p, n) ==
    /\ p \in Points(n)
    /\ (p % NS(n)) \in 1..n
    /\ (p \div NS(n)) \in 1..n
\* the four axis directions: horizontal, vertical, two diagonals
Directions(n) == << 1, NS(n), NS(n) + 1, NS(n) - 1 >>

opponent(color) == WHITE + BLACK - color

\* board.reset(n): border everywhere, interior EMPTY
EmptyBoard(n) ==
    [p \in Points(n) |-> IF IsInterior(p, n) THEN EMPTY ELSE BORDER]

\* read of a cell; anything outside the store counts as border
At(b, p) == IF p \in DOMAIN b THEN b[p] ELSE BORDER

(* ---------------- Board: enumeration of empty points ---------------- *)
\* the members of a set of points as a list in ascending order
Ascending(ps) ==
    [i \in 1..Cardinality(ps) |->
        CHOOSE p \in ps : Cardinality({ q \in ps : q < p }) = i - 1]

\* get_empty_points(): the empty cells in ascending index (row-major) order
get_empty_points(B) ==
    Ascending({ p \in DOMAIN B.board : B.board[p] = EMPTY })

(* ---------------- Board: win detection ---------------- *)
\* the first k values of f as an explicit list
Listed(f, k) == SubSeq(f, 1, k)

\* the lines of `len` interior cells, as [start, dir, cells], in scan order:
\* every cell in index order and, per cell, the four directions in turn.
\* A line is numbered 4 * start + (index of its direction) - 1.
LineStart(x) == x \div 4
LineDir(n, x) == Directions(n)[(x % 4) + 1]
LineKeys(n, len) ==
    { x \in 0..(4 * MaxPoint(n)) :
        \A j \in 0..(len - 1) : IsInterior(LineStart(x) + j * LineDir(n, x), n) }
LineOf(n, len, x) ==
    [start |-> LineStart(x), dir |-> LineDir(n, x),
     cells |-> Listed([j \in 1..len |-> LineStart(x) + (j - 1) * LineDir(n, x)],
                      len)]
\* the lines numbered by keys, in the order of keys
LinesOfKeys(n, len, keys) ==
    Listed([i \in 1..Len(keys) |-> LineOf(n, len, keys[i])], Len(keys))
Lines(n, len) == LinesOfKeys(n, len, Ascending(LineKeys(n, len)))

\* the scan lines of every board size up to BoardSize, computed once
FiveLines == Listed([n \in 1..BoardSize |-> Lines(n, 5)], BoardSize)
FourLines == Listed([n \in 1..BoardSize |-> Lines(n, 4)], BoardSize)

\* every cell of line w holds the colour of its first cell, a stone
Mono(b, w) ==
    /\ b[w.cells[1]] \in {BLACK, WHITE}
    /\ \A j \in 2..Len(w.cells) : b[w.cells[j]] = b[w.cells[1]]

\* the colour on the first line, in scan order, among those numbered in hits
FirstColour(b, lines, hits) ==
    IF hits = {} THEN EMPTY
    ELSE b[lines[CHOOSE i \in hits : \A j \in hits : i <= j].start]

\* the colour of the first line of one colour among lines
FirstMono(b, lines) ==
    FirstColour(b, lines, { i \in 1..Len(lines) : Mono(b, lines[i]) })

\* five consecutive same-coloured stones; the first colour found
detect_five_in_a_row(B) == FirstMono(B.board, FiveLines[B.size])

\* a run of exactly four with at least one empty extension cell
OpenRun(b, w) ==
    /\ Mono(b, w)
    /\ At(b, w.start - w.dir) # b[w.start]
    /\ At(b, w.start + 4 * w.dir) # b[w.start]
    /\ (At(b, w.start - w.dir) = EMPTY \/ At(b, w.start + 4 * w.dir) = EMPTY)

\* the colour of the first open run among lines
FirstOpenRun(b, lines) ==
    FirstColour(b, lines, { i \in 1..Len(lines) : OpenRun(b, lines[i]) })

detect_four_in_a_row(B) == FirstOpenRun(B.board, FourLines[B.size])

(* ---------------- Board: mutation ---------------- *)
\* play_move(point, color): refuses an occupied cell without mutation;
\* otherwise sets the cell and hands the turn to the opponent of color.
play_move_ok(B, point, color) == B.board[point] = EMPTY

play_move(B, point, color) ==
    IF B.board[point] # EMPTY THEN B
    ELSE [B EXCEPT !.board[point] = color,
                   !.current_player = opponent(color)]

\* set_color(color, point): direct write of a cell (used with EMPTY to undo)
set_color(B, color, point) == [B EXCEPT !.board[point] = color]

(***************************************************************************)
(* assignment3: heuristic policy engine.  The rule functions work on the   *)
(* connection object S = [size, board, current_player, moves], moves being *)
(* self.moves, and return the object as they leave it.  Where a function   *)
(* is split, the later part takes what the earlier part computed as an     *)
(* argument.                                                               *)
(***************************************************************************)

SeqSet(s) == { s[k] : k \in 1..Len(s) }

\* the list as collected, repeated elements kept
Collected(s) == s

\* list(set(s)): every distinct element once (in ascending order here; the
\* order Python gives is unspecified)
Dedup(s) == Ascending(SeqSet(s))

(* ---- win_modified(player), lines 299-307: [S, ret] ---- *)
RECURSIVE win_modifiedLoop(_, _, _, _)
win_modifiedLoop(S, empty, i, player) ==
    IF i > Len(empty) THEN [S |-> S, ret |-> None]
    ELSE LET S1 == play_move(S, empty[i], player)
         IN IF detect_five_in_a_row(S1) = player
            THEN [S |-> set_color(S1, EMPTY, empty[i]), ret |-> empty[i]]
            ELSE win_modifiedLoop(set_color(S1, EMPTY, empty[i]),
                                  empty, i + 1, player)

win_modified(S, player) == win_modifiedLoop(S, get_empty_points(S), 1, player)

(* ---- win(player), lines 310-317 ---- *)
RECURSIVE winLoop(_, _, _, _)
winLoop(S, empty, i, player) ==
    IF i > Len(empty) THEN S
    ELSE LET S1 == play_move(S, empty[i], player)
         IN winLoop(set_color(IF detect_five_in_a_row(S1) = player
                              THEN [S1 EXCEPT !.moves = Append(@, empty[i])]
                              ELSE S1,
                              EMPTY, empty[i]),
                    empty, i + 1, player)

\* what win would leave if it stopped at the first cell found
winFirstFound(r) ==
    IF r.ret = None THEN r.S ELSE [r.S EXCEPT !.moves = Append(@, r.ret)]

\* win as it would be if it stopped at the first cell found
winFirstOnly(S, player) == winFirstFound(win_modified(S, player))

win(S, player) == winLoop(S, get_empty_points(S), 1, player)

(* ---- openFour(player), lines 320-339 ---- *)
\* lines 328-335: the inner loop over the empty points left after the
\* opponent's reply `move` to the stone on `first`
RECURSIVE openFourInner(_, _, _, _, _, _)
openFourInner(S, empty, j, player, move, first) ==
    IF j > Len(empty) THEN S
    ELSE LET S1 == play_move(S, empty[j], player)
             S4 == set_color(set_color(set_color(S1, EMPTY, empty[j]),
                                       EMPTY, move),
                             EMPTY, first)
         IN openFourInner(IF detect_five_in_a_row(S1) = player
                          THEN [S4 EXCEPT !.moves = Append(@, first)]
                          ELSE S4,
                          empty, j + 1, player, move, first)

\* lines 326-335: the opponent's reply on `move` and the inner loop
openFourReply(S, player, move, first) ==
    LET S3 == play_move(S, move, opponent(player))
    IN openFourInner(S3, get_empty_points(S3), 1, player, move, first)

RECURSIVE openFourLoop(_, _, _, _)
\* lines 324-335: the rest of one iteration, wm being what win_modified gave
openFourAfter(wm, empty_o, i, player) ==
    IF wm.ret # None
    THEN openFourLoop(openFourReply(wm.S, player, wm.ret, empty_o[i]),
                      empty_o, i + 1, player)
    ELSE openFourLoop(wm.S, empty_o, i + 1, player)

\* lines 322-335: the outer loop from index i on
openFourLoop(S, empty_o, i, player) ==
    IF i > Len(empty_o) THEN S
    ELSE openFourAfter(win_modified(play_move(S, empty_o[i], player), player),
                       empty_o, i, player)

\* the trailing loop that clears every originally empty point
RECURSIVE undoAll(_, _, _)
undoAll(S, empty, i) ==
    IF i > Len(empty) THEN S
    ELSE undoAll(set_color(S, EMPTY, empty[i]), empty, i + 1)

\* openFour as it would be without the final loop that clears the points
openFourNoFinalUndo(S, player) ==
    openFourLoop(S, get_empty_points(S), 1, player)

openFour(S, player) ==
    LET empty_o == get_empty_points(S)
    IN undoAll(openFourLoop(S, empty_o, 1, player), empty_o, 1)

(* ---- blockOpenFour(player), lines 342-355 ---- *)
RECURSIVE blockOpenFourInnerRepeat(_, _, _, _, _)
\* the inner loop as it would be without the test `not in self.moves`
blockOpenFourInnerRepeat(S, empty, j, player, first) ==
    IF j > Len(empty) THEN S
    ELSE LET S1 == play_move(S, empty[j], player)
         IN blockOpenFourInnerRepeat(
                set_color(IF detect_five_in_a_row(S1) = player
                          THEN [S1 EXCEPT !.moves = Append(@, first)]
                          ELSE S1,
                          EMPTY, empty[j]),
                empty, j + 1, player, first)

RECURSIVE blockOpenFourInner(_, _, _, _, _)
blockOpenFourInner(S, empty, j, player, first) ==
    IF j > Len(empty) THEN S
    ELSE LET S1 == play_move(S, empty[j], player)
         IN blockOpenFourInner(
                set_color(IF /\ detect_five_in_a_row(S1) = player
                             /\ first \notin SeqSet(S1.moves)
                          THEN [S1 EXCEPT !.moves = Append(@, first)]
                          ELSE S1,
                          EMPTY, empty[j]),
                empty, j + 1, player, first)

RECURSIVE blockOpenFourLoop(_, _, _, _)
blockOpenFourLoop(S, empty_o, i, player) ==
    IF i > Len(empty_o) THEN S
    ELSE LET S1 == play_move(S, empty_o[i], player)
         IN blockOpenFourLoop(
                set_color(IF detect_four_in_a_row(S1) = player
                          THEN blockOpenFourInner(S1, get_empty_points(S1), 1,
                                                  player, empty_o[i])
                          ELSE S1,
                          EMPTY, empty_o[i]),
                empty_o, i + 1, player)

blockOpenFour(S, player) == blockOpenFourLoop(S, get_empty_points(S), 1, player)

(* ---- random(), lines 273-296 ---- *)
\* One walk of the shuffled list (lines 281-288): W carries the board object,
\* the player to assign next, the trial's own list `moves`, final_moves, and
\* for the record the colours assigned and whether the trial recorded a move.
\* lines 286-288: after the stone is set (board object S1) and the test of
\* line 286 gave hit
randomNote(W, S1, hit) ==
    [S |-> S1,
     player |-> opponent(W.player),
     moves |-> W.moves,
     final_moves |-> IF hit THEN Append(W.final_moves, W.moves[1])
                     ELSE W.final_moves,
     colours |-> Append(W.colours, W.player),
     recorded |-> W.recorded \/ hit]

\* lines 284-288: one assignment of the walk
randomAssign(W, point, mover) ==
    LET S1 == play_move(W.S, point, W.player)
    IN randomNote(W, S1, detect_five_in_a_row(S1) \in {mover, 0})

RECURSIVE randomWalk(_, _, _, _)
randomWalk(W, empty, i, mover) ==
    IF i > Len(empty) THEN W
    ELSE IF Len(W.moves) = 0
    THEN randomWalk(randomAssign([W EXCEPT !.moves = << empty[i] >>],
                                 empty[i], mover),
                    empty, i + 1, mover)
    ELSE randomWalk(randomAssign(W, empty[i], mover),
                    empty, i + 1, mover)

\* lines 290-292 after the walk W of a trial: the undo of every listed point;
\* R carries the board object, the player, final_moves and the record of the
\* trials made so far
randomUndo(R, W, empty) ==
    [player |-> W.player,
     final_moves |-> W.final_moves,
     trials |-> Append(R.trials,
                       [first |-> IF Len(W.moves) = 0 THEN None
                                  ELSE W.moves[1],
                        colours |-> W.colours,
                        outcome |-> detect_five_in_a_row(W.S),
                        full |-> Len(get_empty_points(W.S)) = 0,
                        recorded |-> W.recorded]),
     S |-> undoAll(W.S, empty, 1)]

\* one trial (lines 280-292)
randomTrial(R, empty, mover) ==
    randomUndo(R,
               randomWalk([S |-> R.S, player |-> R.player, moves |-> << >>,
                           final_moves |-> R.final_moves,
                           colours |-> << >>, recorded |-> FALSE],
                          empty, 1, mover),
               empty)

\* the state after the first j of the N trials (line 279)
RECURSIVE randomTrials(_, _, _, _)
randomTrials(R, empty, j, mover) ==
    IF j = 0 THEN R
    ELSE randomTrial(randomTrials(R, empty, j - 1, mover), empty, mover)

\* np.random.shuffle(empty): the order is an input of the call.  The orders
\* considered are the rotations of the enumeration order; sh is the number of
\* places rotated.
Shuffle(empty, sh) ==
    [k \in 1..Len(empty) |-> empty[((k - 1 + sh) % Len(empty)) + 1]]

ShuffleChoices == 0..MaxShift

\* lines 294-296 after the trials R: [S, ret, trials]
randomReturn(R) ==
    [S |-> R.S, ret |-> Dedup(R.final_moves), trials |-> R.trials]

\* random(): [S, ret, trials]
random(S, sh) ==
    randomReturn(randomTrials([S |-> S, player |-> S.current_player,
                               final_moves |-> << >>, trials |-> << >>],
                              Shuffle(get_empty_points(S), sh), N,
                              S.current_player))

(* ---- rule_based(), lines 357-388 ---- *)
\* The four tactical rules in turn (lines 357-386): [S, action, moves], the
\* action being "Random" with no moves when none of them found a move.  Each
\* part takes the object as the rule before it left it.
\* `return action, self.moves`
rule_basedFound(S, action) == [S |-> S, action |-> action, moves |-> S.moves]

\* lines 382-386, after blockOpenFour(opponent_player)
rule_basedBlockOpenFour(S) ==
    IF Len(S.moves) # 0 THEN rule_basedFound(S, "BlockOpenFour")
    ELSE [S |-> S, action |-> "Random", moves |-> << >>]

\* lines 376-386, after openFour(current_player)
rule_basedOpenFour(S, mover) ==
    IF Len(S.moves) # 0 THEN rule_basedFound(S, "OpenFour")
    ELSE rule_basedBlockOpenFour(blockOpenFour(S, opponent(mover)))

\* lines 370-386, after win(opponent_player)
rule_basedBlockWin(S, mover) ==
    IF Len(S.moves) # 0 THEN rule_basedFound(S, "BlockWin")
    ELSE rule_basedOpenFour(openFour(S, mover), mover)

\* lines 364-386, after win(current_player)
rule_basedWin(S, mover) ==
    IF Len(S.moves) # 0 THEN rule_basedFound(S, "Win")
    ELSE rule_basedBlockWin(win(S, opponent(mover)), mover)

\* the cascade as it would be with BlockWin tried before Win
rule_basedWinSecond(S, mover) ==
    IF Len(S.moves) # 0 THEN rule_basedFound(S, "Win")
    ELSE rule_basedOpenFour(openFour(S, mover), mover)

rule_basedBlockWinFirst(S, mover) ==
    IF Len(S.moves) # 0 THEN rule_basedFound(S, "BlockWin")
    ELSE rule_basedWinSecond(win(S, mover), mover)

rule_basedBlockFirst(S) ==
    rule_basedBlockWinFirst(win(S, opponent(S.current_player)),
                            S.current_player)

\* the cascade as it would be with the second rule run for the mover again
rule_basedWinTwice(S, mover) ==
    IF Len(S.moves) # 0 THEN rule_basedFound(S, "Win")
    ELSE rule_basedBlockWin(win(S, mover), mover)

rule_basedNoBlockWin(S) ==
    rule_basedWinTwice(win(S, S.current_player), S.current_player)

\* lines 357-386
rule_basedTactics(S) ==
    rule_basedWin(win(S, S.current_player), S.current_player)

\* lines 386-388: the answer from what random() returned
rule_basedFromRandom(r) ==
    [S |-> r.S, action |-> "Random", moves |-> r.ret, trials |-> r.trials]

\* lines 384-388 after the tactical rules t: [S, action, moves, trials]
rule_basedRandom(t, sh) ==
    IF t.action # "Random"
    THEN [S |-> t.S, action |-> t.action, moves |-> t.moves, trials |-> << >>]
    ELSE rule_basedFromRandom(random(t.S, sh))

rule_based(S, sh) == rule_basedRandom(rule_basedTactics(S), sh)

(***************************************************************************)
(* assignment2: deadline-bounded solver.  The search functions work on      *)
(* Z = [size, board, current_player, move, move_2, winner, reads], reads    *)
(* being the number of times the clock has been read since start_time, and  *)
(* return [Z, ret].  The deadline d is an input of a solve: the first d     *)
(* reads of the clock find the time limit not reached, every later one      *)
(* finds it reached; d = MaxClock + 1 stands for a clock that never gets    *)
(* there.  Z also carries a history of the search: depth, the depth of the  *)
(* call under way, log, the steps made so far (stones placed before a       *)
(* recursive call, stones taken back after it, returns without a call),     *)
(* and primary, the outcome and the length of log when the first search     *)
(* came back.                                                               *)
(***************************************************************************)
\* time.time() - self.start_time >= self.timelimit, at the k-th read
Expired(k, d) == d <= MaxClock /\ k > d

\* Z also carries a record of the search, which the code does not keep:
\* depth, the number of search calls the running call is nested in, and log,
\* the list of the events so far.  An event tells its kind ("expired": a call
\* found the deadline exceeded; "leaf": a call found no empty cell; "play": an
\* iteration set its stone; "back": the recursive call of an iteration
\* returned), the function fn and depth of the call it happened in, the
\* iteration idx, the number n of empty cells the call started from, the
\* point and colour of the stone, what detect_five_in_a_row gave (None where
\* it is not asked) and the value returned.
SearchEvent(kind, fn, depth, idx, n, point, colour, five, ret) ==
    [kind |-> kind, fn |-> fn, depth |-> depth, idx |-> idx, n |-> n,
     point |-> point, colour |-> colour, five |-> five, ret |-> ret]

\* the record of a call that returns ret at once
Returned(Z, kind, fn, five, ret) ==
    [Z EXCEPT !.log = Append(@, SearchEvent(kind, fn, Z.depth, 0,
                                            Len(get_empty_points(Z)),
                                            None, EMPTY, five, ret))]

\* the record of iteration i, whose stone is set, entering its recursive call
Descend(Z, fn, five, empty, i) ==
    [Z EXCEPT !.log = Append(@, SearchEvent("play", fn, Z.depth, i,
                                            Len(empty), empty[i],
                                            Z.board[empty[i]], five, "")),
              !.depth = @ + 1]

\* the record of iteration i, whose recursive call returned ret
Ascend(Z, fn, ret, empty, i) ==
    [Z EXCEPT !.log = Append(@, SearchEvent("back", fn, Z.depth - 1, i,
                                            Len(empty), empty[i], EMPTY,
                                            None, ret)),
              !.depth = @ - 1]

RECURSIVE minimaxBooleanOR(_, _)
RECURSIVE minimaxBooleanAND(_, _)
RECURSIVE minimaxBooleanORLoop(_, _, _, _)
RECURSIVE minimaxBooleanANDLoop(_, _, _, _)

\* lines 288-289 with the stone of line 289 left out at the root of the search
minimaxBooleanORPlayBelowRoot(Z, point) ==
    IF Z.depth = 0 THEN [Z EXCEPT !.move = Append(@, point)]
    ELSE play_move([Z EXCEPT !.move = Append(@, point)], point,
                   Z.current_player)

\* lines 288-289: the move is listed and played
minimaxBooleanORPlay(Z, point) ==
    play_move([Z EXCEPT !.move = Append(@, point)], point, Z.current_player)

\* lines 291-297: a win on the board is noted, then the turn is White's
minimaxBooleanORNote(Z, result, point) ==
    IF result = 1
    THEN [Z EXCEPT !.winner = "b", !.move_2 = Append(@, point),
                   !.current_player = 2]
    ELSE IF result = 2
    THEN [Z EXCEPT !.winner = "w", !.move_2 = Append(@, point),
                   !.current_player = 2]
    ELSE [Z EXCEPT !.current_player = 2]

\* lines 290-297, result being what detect_five_in_a_row gave at line 290
minimaxBooleanORFound(Z, result, empty, i) ==
    Descend(minimaxBooleanORNote(Z, result, empty[i]), "OR", result, empty, i)

\* lines 288-297: the object the recursive call of iteration i starts from
minimaxBooleanORChild(Z, empty, i) ==
    minimaxBooleanORFound(Z, detect_five_in_a_row(Z), empty, i)

\* lines 300-305 as they would be if the stone were left in place when a
\* decisive result ends the loop
minimaxBooleanORUndoKeep(r, d, empty, i) ==
    IF r.ret = "w" \/ r.ret = "b"
    THEN [ret |-> r.ret, Z |-> Ascend(r.Z, "OR", r.ret, empty, i)]
    ELSE IF i = Len(empty)
    THEN [ret |-> r.ret,
          Z |-> Ascend(set_color(r.Z, EMPTY, empty[i]), "OR", r.ret,
                       empty, i)]
    ELSE minimaxBooleanORLoop(Ascend(set_color(r.Z, EMPTY, empty[i]), "OR",
                                     r.ret, empty, i),
                              d, empty, i + 1)

\* lines 300-305 as they would be without the break
minimaxBooleanORUndoAll(r, d, empty, i) ==
    IF i = Len(empty)
    THEN [ret |-> r.ret,
          Z |-> Ascend(set_color(r.Z, EMPTY, empty[i]), "OR", r.ret,
                       empty, i)]
    ELSE minimaxBooleanORLoop(Ascend(set_color(r.Z, EMPTY, empty[i]), "OR",
                                     r.ret, empty, i),
                              d, empty, i + 1)

\* lines 300-305: after the recursive call of iteration i returned r
minimaxBooleanORUndo(r, d, empty, i) ==
    IF r.ret = "w" \/ r.ret = "b" \/ i = Len(empty)
    THEN [ret |-> r.ret,
          Z |-> Ascend(set_color(r.Z, EMPTY, empty[i]), "OR", r.ret,
                       empty, i)]
    ELSE minimaxBooleanORLoop(Ascend(set_color(r.Z, EMPTY, empty[i]), "OR",
                                     r.ret, empty, i),
                              d, empty, i + 1)

\* lines 287-305: the loop of minimaxBooleanOR from index i on
minimaxBooleanORLoop(Z, d, empty, i) ==
    minimaxBooleanORUndo(
        minimaxBooleanAND(
            minimaxBooleanORChild(minimaxBooleanORPlay(Z, empty[i]),
                                  empty, i),
            d),
        d, empty, i)

\* `self.winner = w; return self.winner` on a full board (lines 279-285,
\* 317-323, 352-356, 374-378), result being what detect_five_in_a_row gave
minimaxBooleanFull(Z, fn, result, w) ==
    [ret |-> w,
     Z |-> Returned([Z EXCEPT !.reads = @ + 1, !.winner = w],
                    "leaf", fn, result, w)]

\* lines 278-285 as they would be without the else branch of line 283: with
\* no five-in-a-row on the board self.winner stays what it was
minimaxBooleanORFullKept(Z, result) ==
    minimaxBooleanFull(Z, "OR", result,
                       IF result = 1 THEN "b"
                       ELSE IF result = 2 THEN "w"
                       ELSE Z.winner)

\* lines 278-285: a full board
minimaxBooleanORFull(Z, result) ==
    minimaxBooleanFull(Z, "OR", result, IF result = 2 THEN "w" ELSE "draw")

\* lines 272-274 and 310-312: the deadline is found exceeded
minimaxBooleanExpired(Z, fn) ==
    [ret |-> "unknown",
     Z |-> Returned([Z EXCEPT !.reads = @ + 1, !.winner = "unknown"],
                    "expired", fn, None, "unknown")]

\* lines 269-305
minimaxBooleanOR(Z, d) ==
    IF Expired(Z.reads + 1, d)
    THEN minimaxBooleanExpired(Z, "OR")
    ELSE LET empty == get_empty_points(Z)
         IN IF Len(empty) = 0
            THEN minimaxBooleanORFull(Z, detect_five_in_a_row(Z))
            ELSE minimaxBooleanORLoop([Z EXCEPT !.reads = @ + 1], d, empty, 1)

\* lines 326-327: the move is listed and played
minimaxBooleanANDPlay(Z, point) ==
    play_move([Z EXCEPT !.move = Append(@, point)], point, Z.current_player)

\* lines 329-335: a win on the board is noted, then the turn is Black's
minimaxBooleanANDNote(Z, result, point) ==
    IF result = 1
    THEN [Z EXCEPT !.winner = "b", !.move_2 = Append(@, point),
                   !.current_player = 1]
    ELSE IF result = 2
    THEN [Z EXCEPT !.winner = "w", !.move_2 = Append(@, point),
                   !.current_player = 1]
    ELSE [Z EXCEPT !.current_player = 1]

\* lines 328-335, result being what detect_five_in_a_row gave at line 328
minimaxBooleanANDFound(Z, result, empty, i) ==
    Descend(minimaxBooleanANDNote(Z, result, empty[i]), "AND", result,
            empty, i)

\* lines 326-335: the object the recursive call of iteration i starts from
minimaxBooleanANDChild(Z, empty, i) ==
    minimaxBooleanANDFound(Z, detect_five_in_a_row(Z), empty, i)

\* lines 337-342: after the recursive call of iteration i returned r
minimaxBooleanANDUndo(r, d, empty, i) ==
    IF r.ret = "b" \/ r.ret = "w" \/ i = Len(empty)
    THEN [ret |-> r.ret,
          Z |-> Ascend(set_color(r.Z, EMPTY, empty[i]), "AND", r.ret,
                       empty, i)]
    ELSE minimaxBooleanANDLoop(Ascend(set_color(r.Z, EMPTY, empty[i]), "AND",
                                      r.ret, empty, i),
                               d, empty, i + 1)

\* lines 325-342: the loop of minimaxBooleanAND from index i on
minimaxBooleanANDLoop(Z, d, empty, i) ==
    minimaxBooleanANDUndo(
        minimaxBooleanOR(
            minimaxBooleanANDChild(minimaxBooleanANDPlay(Z, empty[i]),
                                   empty, i),
            d),
        d, empty, i)

\* lines 315-323: a full board
minimaxBooleanANDFull(Z, result) ==
    minimaxBooleanFull(Z, "AND", result,
                       IF result = 1 THEN "b"
                       ELSE IF result = 2 THEN "w"
                       ELSE IF result = 0 THEN "draw"
                       ELSE Z.winner)

\* lines 307-342
minimaxBooleanAND(Z, d) ==
    IF Expired(Z.reads + 1, d)
    THEN minimaxBooleanExpired(Z, "AND")
    ELSE LET empty == get_empty_points(Z)
         IN IF Len(empty) = 0
            THEN minimaxBooleanANDFull(Z, detect_five_in_a_row(Z))
            ELSE minimaxBooleanANDLoop([Z EXCEPT !.reads = @ + 1], d, empty, 1)

RECURSIVE minimaxBooleanOR_modified(_, _)
RECURSIVE minimaxBooleanAND_modified(_, _)
RECURSIVE minimaxBooleanOR_modifiedLoop(_, _, _, _)
RECURSIVE minimaxBooleanAND_modifiedLoop(_, _, _, _)

\* lines 362-363: the undo and the listing of the move (both loops)
minimaxBoolean_modifiedUndo(r, fn, empty, i) ==
    [ret |-> r.ret,
     Z |-> Ascend([set_color(r.Z, EMPTY, empty[i])
                      EXCEPT !.move = Append(@, empty[i])],
                  fn, r.ret, empty, i)]

\* lines 347 and 369: the deadline is found exceeded
minimaxBoolean_modifiedExpired(Z, fn) ==
    [ret |-> Z.winner,
     Z |-> Returned([Z EXCEPT !.reads = @ + 1], "expired", fn, None,
                    Z.winner)]

\* lines 358-364: after iteration i left q
minimaxBooleanOR_modifiedNext(q, d, empty, i) ==
    IF i = Len(empty) THEN q
    ELSE minimaxBooleanOR_modifiedLoop(q.Z, d, empty, i + 1)

\* lines 358-364: the loop of minimaxBooleanOR_modified from index i on
minimaxBooleanOR_modifiedLoop(Z, d, empty, i) ==
    minimaxBooleanOR_modifiedNext(
        minimaxBoolean_modifiedUndo(
            minimaxBooleanAND_modified(
                Descend([play_move(Z, empty[i], Z.current_player)
                            EXCEPT !.current_player = 2],
                        "ORm", None, empty, i),
                d),
            "ORm", empty, i),
        d, empty, i)

\* lines 350-356: a full board
minimaxBooleanOR_modifiedFull(Z, result) ==
    minimaxBooleanFull(Z, "ORm", result, IF result = 1 THEN "b" ELSE "draw")

\* lines 344-364
minimaxBooleanOR_modified(Z, d) ==
    IF Expired(Z.reads + 1, d)
    THEN minimaxBoolean_modifiedExpired(Z, "ORm")
    ELSE LET empty == get_empty_points(Z)
         IN IF Len(empty) = 0
            THEN minimaxBooleanOR_modifiedFull(Z, detect_five_in_a_row(Z))
            ELSE minimaxBooleanOR_modifiedLoop([Z EXCEPT !.reads = @ + 1],
                                               d, empty, 1)

\* lines 380-386: after iteration i left q
minimaxBooleanAND_modifiedNext(q, d, empty, i) ==
    IF i = Len(empty) THEN q
    ELSE minimaxBooleanAND_modifiedLoop(q.Z, d, empty, i + 1)

\* lines 380-386: the loop of minimaxBooleanAND_modified from index i on
minimaxBooleanAND_modifiedLoop(Z, d, empty, i) ==
    minimaxBooleanAND_modifiedNext(
        minimaxBoolean_modifiedUndo(
            minimaxBooleanOR_modified(
                Descend([play_move(Z, empty[i], Z.current_player)
                            EXCEPT !.current_player = 1],
                        "ANDm", None, empty, i),
                d),
            "ANDm", empty, i),
        d, empty, i)

\* lines 372-378: a full board
minimaxBooleanAND_modifiedFull(Z, result) ==
    minimaxBooleanFull(Z, "ANDm", result,
                       IF result = 2 THEN "w"
                       ELSE IF result = 0 THEN "draw"
                       ELSE Z.winner)

\* lines 366-386
minimaxBooleanAND_modified(Z, d) ==
    IF Expired(Z.reads + 1, d)
    THEN minimaxBoolean_modifiedExpired(Z, "ANDm")
    ELSE LET empty == get_empty_points(Z)
         IN IF Len(empty) = 0
            THEN minimaxBooleanAND_modifiedFull(Z, detect_five_in_a_row(Z))
            ELSE minimaxBooleanAND_modifiedLoop([Z EXCEPT !.reads = @ + 1],
                                                d, empty, 1)

\* color_to_int(c), lines 626-633 (assignment3: 599-606): the keys of the
\* dictionary and the value of each; any other text raises KeyError
ColourKeys == {"b", "w", "e", "BORDER"}
color_to_int(c) ==
    IF c = "b" THEN BLACK
    ELSE IF c = "w" THEN WHITE
    ELSE IF c = "e" THEN EMPTY
    ELSE BORDER

\* lines 409-411 and 424-426: the move picked after a search; None with
\* error when self.move is empty (self.move[-1] raises IndexError)
solvePick(Z) ==
    IF Len(Z.move) = 0 THEN [mv |-> None, error |-> TRUE]
    ELSE IF Len(Z.move_2) # 0 THEN [mv |-> Z.move_2[1], error |-> FALSE]
    ELSE [mv |-> Z.move[Len(Z.move)], error |-> FALSE]

\* lines 408 and 423: self.winner = result
solveWinner(r) == [r.Z EXCEPT !.winner = r.ret]

\* lines 423-426 after the second search left Z with the pick from it
solveRescued(Z, pick) ==
    [Z |-> Z, mv |-> pick.mv, error |-> pick.error, ran |-> TRUE]

\* lines 418-426: the second search from Z
solveSecond(Z, d, player) ==
    LET Z2 == solveWinner(IF player = 1 THEN minimaxBooleanOR_modified(Z, d)
                          ELSE minimaxBooleanAND_modified(Z, d))
    IN solveRescued(Z2, solvePick(Z2))

\* lines 414-426 with the test of line 416 left out: the second search after
\* any win
solveRescueAnyWin(Z, d, mv, player) ==
    IF Z.winner = "b" \/ Z.winner = "w"
    THEN solveSecond([Z EXCEPT !.move_2 = << >>], d, player)
    ELSE [Z |-> Z, mv |-> mv, error |-> FALSE, ran |-> FALSE]

\* lines 414-426: the second search; [Z, mv, error, ran]
solveRescue(Z, d, mv, player) ==
    IF (Z.winner = "b" \/ Z.winner = "w") /\ color_to_int(Z.winner) # player
    THEN solveSecond([Z EXCEPT !.move_2 = << >>], d, player)
    ELSE [Z |-> Z, mv |-> mv, error |-> FALSE, ran |-> FALSE]

\* lines 428-447: the response; the move is given only with a win of the
\* side to move or a draw
solveOutput(winner, mv, player) ==
    IF winner = "draw" \/ (winner = "b" /\ player = 1)
                       \/ (winner = "w" /\ player = 2)
    THEN [tag |-> winner, mv |-> mv]
    ELSE [tag |-> winner, mv |-> None]

\* lines 428-447 after a search, q being what lines 414-426 left
solveAnswer(q, player) ==
    [Z |-> q.Z,
     output |-> IF q.error THEN [tag |-> "", mv |-> None]
                ELSE solveOutput(q.Z.winner, q.mv, player),
     error |-> q.error, searched |-> TRUE, rescued |-> q.ran]

\* lines 409-447 after the first search left Z with the pick from it
solvePicked(Z, pick, d, player) ==
    IF pick.error
    THEN [Z |-> Z, output |-> [tag |-> "", mv |-> None],
          error |-> TRUE, searched |-> TRUE, rescued |-> FALSE]
    ELSE solveAnswer(solveRescue(Z, d, pick.mv, player), player)

\* the record of the primary search: its outcome and the number of events
\* it made
solvePrimary(Z) ==
    [Z EXCEPT !.primary = [ret |-> Z.winner, events |-> Len(Z.log)]]

\* lines 401-447: the board shows no five-in-a-row
solveSearch(Z, d, player) ==
    LET Z2 == solvePrimary(solveWinner(IF player = 1
                                       THEN minimaxBooleanOR(Z, d)
                                       ELSE minimaxBooleanAND(Z, d)))
    IN solvePicked(Z2, solvePick(Z2), d, player)

\* lines 395-447, result being what detect_five_in_a_row gave at line 395
solveFrom(Z, result, d) ==
    IF result = 1 \/ result = 2
    THEN [Z |-> [Z EXCEPT !.winner = IF result = 1 THEN "b" ELSE "w"],
          output |-> solveOutput(IF result = 1 THEN "b" ELSE "w", None,
                                 Z.current_player),
          error |-> FALSE, searched |-> FALSE, rescued |-> FALSE]
    ELSE solveSearch([Z EXCEPT !.move_2 = << >>, !.has_move_2 = TRUE],
                     d, Z.current_player)

\* solve_cmd, lines 388-447, on the connection object Z (reads = 0 at
\* start_time): [Z, output, error, searched, rescued]; on error the command
\* does not answer
solve_cmd(Z, d) ==
    solveFrom([Z EXCEPT !.winner = "unknown", !.reads = 0],
              detect_five_in_a_row(Z), d)

(***************************************************************************)
(* State of a connection and of the board it owns.                         *)
(***************************************************************************)
VARIABLES
    size,            \* board.size
    board,           \* board.board, the flattened grid
    current_player,  \* board.current_player
    policy,          \* self.policy (assignment3)
    moves,           \* self.moves (assignment3)
    solver,          \* assignment2: timelimit, move, move_2 (has_move_2: the
                     \* attribute exists), winner, and the number of solve
                     \* commands made
    last,            \* the last command or call: its arguments, the state it
                     \* started from and what it answered
    prev,            \* what the command before it answered
    steps            \* the number of commands of the game made so far

vars ==
    << size, board, current_player, policy, moves, solver, last, prev, steps >>

\* the connection object the rule functions work on
Self == [size |-> size, board |-> board, current_player |-> current_player,
         moves |-> moves]

\* the connection object the search functions work on
SelfSolver ==
    [size |-> size, board |-> board, current_player |-> current_player,
     move |-> solver.move, move_2 |-> solver.move_2,
     has_move_2 |-> solver.has_move_2, winner |-> solver.winner, reads |-> 0,
     depth |-> 0, log |-> << >>, primary |-> [ret |-> "", events |-> 0]]

Pre == [board |-> board, current_player |-> current_player,
        moves |-> moves, policy |-> policy, solver |-> solver]

NoLast == [cmd |-> "none", player |-> EMPTY, pre |-> << >>, action |-> "",
           cands |-> << >>, ret |-> None, trials |-> << >>, error |-> FALSE,
           response |-> << >>, args |-> << >>, core |-> FALSE,
           answer |-> ""]

Brief(l) == [cmd |-> l.cmd, action |-> l.action, cands |-> l.cands,
             policy |-> IF l.cmd = "none" THEN "" ELSE l.pre.policy]

(* ---------------- the positions Init draws from ---------------- *)
\* A full position without five-in-a-row: horizontal runs of three, shifted by
\* three from one row to the next.
Background(row, col) ==
    IF ((col + 3 * row + 3) % 6) < 3 THEN BLACK ELSE WHITE

\* The cells whose content Init varies: column 2 and the cells (4,6), (6,1).
\* Column 2 carries a run of one colour from row 2 downwards (rows 2 and 3 hold
\* it, row 4 holds it or is empty, row 1 does not hold it); rows 5 and 6 are
\* free; (4,6) and (6,1) are empty or white.
LiveColumn(n) == { coord_to_point(r, 2, n) : r \in 1..6 }
LiveExtra(n) == { coord_to_point(4, 6, n), coord_to_point(6, 1, n) }
LiveCells(n) == LiveColumn(n) \cup LiveExtra(n)

LiveFills(n) ==
    { f \in [LiveCells(n) -> {EMPTY, BLACK, WHITE}] :
        /\ \A p \in LiveExtra(n) : f[p] # BLACK
        /\ f[coord_to_point(2, 2, n)] # EMPTY
        /\ f[coord_to_point(3, 2, n)] = f[coord_to_point(2, 2, n)]
        /\ f[coord_to_point(4, 2, n)] \in {EMPTY, f[coord_to_point(2, 2, n)]}
        /\ f[coord_to_point(1, 2, n)] # f[coord_to_point(2, 2, n)]
        /\ Cardinality({ p \in LiveCells(n) : f[p] = EMPTY }) <= MaxEmpty }

PositionOf(n, f) ==
    [p \in Points(n) |->
        IF ~IsInterior(p, n) THEN BORDER
        ELSE IF p \in DOMAIN f THEN f[p]
        ELSE Background(p \div NS(n), p % NS(n))]

InitBoards(n) == { PositionOf(n, f) : f \in LiveFills(n) }

Init ==
    /\ size = BoardSize
    /\ board \in InitBoards(BoardSize)
    /\ current_player \in {BLACK, WHITE}
    /\ policy = "rule_based"
    /\ moves = << >>
    /\ solver = [timelimit |-> 1, move |-> << >>, move_2 |-> << >>,
                 has_move_2 |-> FALSE, winner |-> "", solves |-> 0]
    /\ last = NoLast
    /\ prev = Brief(NoLast)
    /\ steps = 0

(***************************************************************************)
(* The rule functions applied to a position (one call per behaviour).      *)
(***************************************************************************)
Adopt(S) ==
    /\ board' = S.board
    /\ current_player' = S.current_player
    /\ moves' = S.moves
    /\ UNCHANGED << size, policy, solver, steps >>
    /\ prev' = Brief(last)

CallWin(player) ==
    /\ last.cmd = "none"
    /\ \E S \in { win(Self, player) } :
          /\ Adopt(S)
          /\ last' = [NoLast EXCEPT !.cmd = "win", !.player = player,
                                    !.pre = Pre, !.cands = S.moves]

CallWinModified(player) ==
    /\ last.cmd = "none"
    /\ \E r \in { win_modified(Self, player) } :
          /\ Adopt(r.S)
          /\ last' = [NoLast EXCEPT !.cmd = "win_modified", !.player = player,
                                    !.pre = Pre, !.ret = r.ret]

CallOpenFour(player) ==
    /\ last.cmd = "none"
    /\ \E S \in { openFour(Self, player) } :
          /\ Adopt(S)
          /\ last' = [NoLast EXCEPT !.cmd = "openFour", !.player = player,
                                    !.pre = Pre, !.cands = S.moves]

CallBlockOpenFour(player) ==
    /\ last.cmd = "none"
    /\ \E S \in { blockOpenFour(Self, player) } :
          /\ Adopt(S)
          /\ last' = [NoLast EXCEPT !.cmd = "blockOpenFour", !.player = player,
                                    !.pre = Pre, !.cands = S.moves]

CallRandom(sh) ==
    /\ last.cmd = "none"
    /\ \E r \in { random(Self, sh) } :
          /\ Adopt(r.S)
          /\ last' = [NoLast EXCEPT !.cmd = "random", !.player = current_player,
                                    !.pre = Pre, !.action = "Random",
                                    !.cands = r.ret, !.trials = r.trials]

CallRuleBased ==
    /\ last.cmd = "none"
    /\ \E t \in { rule_basedTactics(Self) } :
         \E sh \in ShuffleChoices :
            \E r \in { rule_basedRandom(t, sh) } :
               /\ Adopt(r.S)
               /\ last' = [NoLast EXCEPT !.cmd = "rule_based",
                                         !.player = current_player,
                                         !.pre = Pre, !.action = r.action,
                                         !.cands = r.moves,
                                         !.trials = r.trials]

NextRules ==
    \/ \E player \in {BLACK, WHITE} : CallWin(player)
    \/ \E player \in {BLACK, WHITE} : CallWinModified(player)
    \/ \E player \in {BLACK, WHITE} : CallOpenFour(player)
    \/ \E player \in {BLACK, WHITE} : CallBlockOpenFour(player)
    \/ \E sh \in ShuffleChoices : CallRandom(sh)
    \/ CallRuleBased

SpecRules == Init /\ [][NextRules]_vars

(***************************************************************************)
(* assignment3: the commands of the policy engine.                         *)
(***************************************************************************)
\* point_to_coord(point, boardsize), lines 544-554: (row, col)
point_to_coord(point, n) == << point \div NS(n), point % NS(n) >>

\* format_point(move), lines 557-568: the column letter, here its position in
\* the alphabet of column letters, followed by the row number
format_point(rc) == [letter |-> rc[2], number |-> rc[1]]

\* lines 416-419: the moves as coordinate texts
Formatted(ms, n) ==
    [k \in 1..Len(ms) |-> format_point(point_to_coord(ms[k], n))]

PolicyArgs == {"random", "rule_based", "greedy"}

\* lines 264-271 with the test of line 265 left out: any name is selected
policy_cmdAny(arg) == [policy |-> arg, answer |-> ""]

\* policy_cmd, lines 264-271, on the name arg: the policy selected after it
\* and the answer, "" or the text that reports the error
policy_cmdOn(arg) ==
    IF arg = "random" \/ arg = "rule_based"
    THEN [policy |-> arg, answer |-> ""]
    ELSE [policy |-> policy, answer |-> "ERROR"]

policy_cmdStep(arg) ==
    /\ ~last.error
    /\ \E r \in { policy_cmdOn(arg) } :
          /\ policy' = r.policy
          /\ last' = [NoLast EXCEPT !.cmd = "policy",
                                    !.player = current_player,
                                    !.pre = Pre, !.answer = r.answer,
                                    !.args = << arg >>]
    /\ prev' = Brief(last)
    /\ UNCHANGED << size, board, current_player, moves, solver >>

policy_cmd(arg) == policy_cmdStep(arg) /\ UNCHANGED steps

\* policy_moves_cmd, lines 390-441: what the command leaves and answers,
\* from the tactical rules' result t and the shuffle sh
\* lines 415-426: the answer from what rule_based() returned
policy_movesRule(r) ==
    [S |-> r.S, action |-> r.action, cands |-> r.moves, trials |-> r.trials]

\* lines 430-441: the answer from what random() returned
policy_movesRandom(r) ==
    [S |-> r.S, action |-> "Random", cands |-> r.ret, trials |-> r.trials]

\* lines 396-441, the test of line 393 left out: a board without an empty
\* point goes on to the selected policy
policy_movesUnguarded(S0, empty, t, sh) ==
    IF Len(empty) = size * size
    THEN [S |-> S0, action |-> "Random", cands |-> empty, trials |-> << >>]
    ELSE IF policy = "rule_based"
    THEN policy_movesRule(rule_basedRandom(t, sh))
    ELSE policy_movesRandom(random(S0, sh))

\* lines 393-441, S0 being the object after line 391 and empty its empty points
policy_movesOn(S0, empty, t, sh) ==
    IF Len(empty) = 0
    THEN [S |-> S0, action |-> "", cands |-> << >>, trials |-> << >>]
    ELSE IF Len(empty) = size * size
    THEN [S |-> S0, action |-> "Random", cands |-> empty, trials |-> << >>]
    ELSE IF policy = "rule_based"
    THEN policy_movesRule(rule_basedRandom(t, sh))
    ELSE policy_movesRandom(random(S0, sh))

policy_moves(t, sh) ==
    policy_movesOn([Self EXCEPT !.moves = << >>],
                   get_empty_points(Self), t, sh)

\* (the tactical rules are not run on the all-empty board: line 411 returns
\* before rule_based() is called)
policy_moves_cmdStep ==
    /\ ~last.error
    /\ \E t \in { IF policy = "rule_based"
                      /\ Len(get_empty_points(Self)) # size * size
                   THEN rule_basedTactics([Self EXCEPT !.moves = << >>])
                   ELSE [S |-> Self, action |-> "", moves |-> << >>] } :
         \E sh \in ShuffleChoices :
            \E r \in { policy_moves(t, sh) } :
               /\ board' = r.S.board
               /\ current_player' = r.S.current_player
               /\ moves' = r.S.moves
               /\ last' = [NoLast EXCEPT !.cmd = "policy_moves",
                                         !.player = current_player,
                                         !.pre = Pre, !.action = r.action,
                                         !.cands = r.cands,
                                         !.trials = r.trials,
                                         !.response =
                                             Formatted(r.cands, size)]
    /\ prev' = Brief(last)
    /\ UNCHANGED << size, policy, solver >>

policy_moves_cmd == policy_moves_cmdStep /\ UNCHANGED steps

Next ==
    \/ \E arg \in PolicyArgs : policy_cmd(arg)
    \/ policy_moves_cmd

Spec == Init /\ [][Next]_vars

(***************************************************************************)
(* The policy commands from the board as boardsize leaves it (every cell   *)
(* empty) and from boards with at most one empty cell.                     *)
(***************************************************************************)
OpeningBoards ==
    { EmptyBoard(BoardSize) }
    \cup { b \in InitBoards(BoardSize) :
             Cardinality({ p \in DOMAIN b : b[p] = EMPTY }) <= 1 }

InitOpening ==
    /\ size = BoardSize
    /\ board \in OpeningBoards
    /\ current_player \in {BLACK, WHITE}
    /\ policy = "rule_based"
    /\ moves = << >>
    /\ solver = [timelimit |-> 1, move |-> << >>, move_2 |-> << >>,
                 has_move_2 |-> FALSE, winner |-> "", solves |-> 0]
    /\ last = NoLast
    /\ prev = Brief(NoLast)
    /\ steps = 0

NextOpening ==
    \/ \E arg \in PolicyArgs : policy_cmd(arg)
    \/ policy_moves_cmd

SpecOpening == InitOpening /\ [][NextOpening]_vars

(***************************************************************************)
(* assignment2: the solve command.                                         *)
(***************************************************************************)
Deadlines == 0..(MaxClock + 1)

SolveCmd(d) ==
    /\ ~last.error
    /\ solver.solves < MaxSolves
    /\ \E r \in { solve_cmd(SelfSolver, d) } :
          /\ board' = r.Z.board
          /\ current_player' = r.Z.current_player
          /\ solver' = [solver EXCEPT !.move = r.Z.move,
                                      !.move_2 = r.Z.move_2,
                                      !.has_move_2 = r.Z.has_move_2,
                                      !.winner = r.Z.winner,
                                      !.solves = @ + 1]
          /\ last' = [NoLast EXCEPT !.cmd = "solve",
                                    !.player = current_player,
                                    !.pre = Pre, !.action = r.output.tag,
                                    !.ret = r.output.mv,
                                    !.error = r.error,
                                    !.trials = << [deadline |-> d,
                                                   reads |-> r.Z.reads,
                                                   searched |-> r.searched,
                                                   rescued |-> r.rescued,
                                                   primary |-> r.Z.primary,
                                                   log |-> r.Z.log] >>]
    /\ prev' = Brief(last)
    /\ UNCHANGED << size, policy, moves, steps >>

NextSolve == \E d \in Deadlines : SolveCmd(d)

SpecSolve == Init /\ [][NextSolve]_vars

(***************************************************************************)
(* The commands of a game: play, genmove, gogui-rules_board.  The texts of *)
(* a command's arguments are inputs.  A colour text is a string; a move    *)
(* text is [pass, letter, number]: the text "pass", or a letter, given by   *)
(* its place in the alphabet a..z, followed by a number.                   *)
(***************************************************************************)
\* str.lower() on the colour texts considered
Lower(t) ==
    IF t = "B" THEN "b"
    ELSE IF t = "W" THEN "w"
    ELSE IF t = "E" THEN "e"
    ELSE IF t = "BORDER" THEN "border"
    ELSE t

ColourTexts == {"b", "W", "e", "BORDER"}

PassText == [pass |-> TRUE, letter |-> 0, number |-> 0]
CoordText(l, k) == [pass |-> FALSE, letter |-> l, number |-> k]

\* b1, b2 (never empty in the positions Init draws), h1 and a7 (beyond a
\* board of BoardSize), a0
MoveTexts ==
    {PassText, CoordText(2, 1), CoordText(2, 2), CoordText(8, 1),
     CoordText(1, BoardSize + 1), CoordText(1, 0)}

\* move_to_coord(point_str, board_size), lines 571-596: [kind, row, col];
\* kind is "pass", "coord", or the ValueError raised
move_to_coordIn(t, n, col) ==
    IF ~(col <= n /\ t.number <= n)
    THEN [kind |-> "wrong coordinate", row |-> 0, col |-> 0]
    ELSE [kind |-> "coord", row |-> t.number, col |-> col]

move_to_coord(t, n) ==
    IF t.pass THEN [kind |-> "pass", row |-> 0, col |-> 0]
    ELSE IF t.letter = 9 \/ t.number < 1
    THEN [kind |-> "invalid point", row |-> 0, col |-> 0]
    ELSE move_to_coordIn(t, n, IF t.letter < 9 THEN t.letter
                               ELSE t.letter - 1)

\* Board.play_move(PASS, color): the grid is not touched, the turn passes
play_pass(B, color) == [B EXCEPT !.current_player = opponent(color)]

\* Board.is_legal(point, color): the cell is empty
is_legal(B, point, color) == B.board[point] = EMPTY

\* what a play command leaves and answers: [S, answer, core, point]; core
\* tells that Board.play_move was called
play_cmdRejected(S, answer) ==
    [S |-> S, answer |-> answer, core |-> FALSE, point |-> None]

\* lines 241-245
play_cmdPass(S, color) ==
    [S |-> [play_pass(S, color) EXCEPT !.current_player = opponent(color)],
     answer |-> "", core |-> TRUE, point |-> None]

\* lines 252-258 as they would be with a board that lets a stone be placed on
\* any cell
play_cmdStoneOver(S, color, move) ==
    [S |-> [S EXCEPT !.board[move] = color,
                     !.current_player = opponent(color)],
     answer |-> "", core |-> TRUE, point |-> move]

\* lines 252-258
play_cmdStone(S, color, move) ==
    IF ~play_move_ok(S, move, color)
    THEN [S |-> S, answer |-> "occupied", core |-> TRUE, point |-> move]
    ELSE [S |-> play_move(S, move, color), answer |-> "", core |-> TRUE,
          point |-> move]

\* lines 246-258, coord being what move_to_coord gave or raised
play_cmdAt(S, color, coord) ==
    IF coord.kind # "coord" THEN play_cmdRejected(S, coord.kind)
    ELSE play_cmdStone(S, color, coord_to_point(coord.row, coord.col, S.size))

\* play_cmd, lines 233-261 (assignment2: 228-256), on colour text c and move
\* text m
play_cmdOn(S, c, m) ==
    IF Lower(c) \notin ColourKeys THEN play_cmdRejected(S, "wrong color")
    ELSE IF m.pass THEN play_cmdPass(S, color_to_int(Lower(c)))
    ELSE play_cmdAt(S, color_to_int(Lower(c)), move_to_coord(m, S.size))

\* assignment1, play_cmd, lines 328-358: the colour text is tested as it
\* came; "pass" gives a coord that is not a pair, and the error message of
\* line 343 names a move that was never set, which raises and is answered as
\* an illegal move
play_cmd1At(S, color, coord) ==
    IF coord.kind = "pass" THEN play_cmdRejected(S, "illegal move")
    ELSE play_cmdAt(S, color, coord)

play_cmd1On(S, c, m) ==
    IF c \notin {"w", "W", "b", "B", "e", "E"}
    THEN play_cmdRejected(S, "wrong color")
    ELSE play_cmd1At(S, color_to_int(Lower(c)), move_to_coord(m, S.size))

\* the state a command of the game leaves, from what it left of the object
Played(r, cmd, c, m) ==
    /\ board' = r.S.board
    /\ current_player' = r.S.current_player
    /\ last' = [NoLast EXCEPT !.cmd = cmd, !.player = current_player,
                              !.pre = Pre, !.answer = r.answer,
                              !.ret = r.point, !.core = r.core,
                              !.args = << c, m >>]
    /\ prev' = Brief(last)
    /\ steps' = steps + 1
    /\ UNCHANGED << size, policy, moves, solver >>

play_cmd(c, m) ==
    /\ ~last.error
    /\ steps < MaxCommands
    /\ last.cmd # "play1"
    /\ \E r \in { play_cmdOn(Self, c, m) } : Played(r, "play", c, m)

play_cmd1(c, m) ==
    /\ ~last.error
    /\ steps < MaxCommands
    /\ last.cmd \in {"none", "play1"}
    /\ \E r \in { play_cmd1On(Self, c, m) } : Played(r, "play1", c, m)

NextPlay ==
    \/ \E c \in ColourTexts : \E m \in MoveTexts : play_cmd(c, m)
    \/ \E c \in ColourTexts : \E m \in MoveTexts : play_cmd1(c, m)

SpecPlay == Init /\ [][NextPlay]_vars

\* genmove_cmd, lines 445-476
\* lines 448-458: the answer given before any move is looked for, "" if none
genmove_cmdEarlyOn(S, result) ==
    IF result = opponent(S.current_player) THEN "resign"
    ELSE IF result = S.current_player THEN "pass"
    ELSE IF Len(get_empty_points(S)) = 0 THEN "pass"
    ELSE ""

genmove_cmdEarly(S) == genmove_cmdEarlyOn(S, detect_five_in_a_row(S))

\* what genmove leaves and answers: [S, answer, point, action, cands, error,
\* trials]; p is [action, cands, trials], what the policy gave
genmove_cmdDone(S, answer, point, p, error) ==
    [S |-> S, answer |-> answer, point |-> point, action |-> p.action,
     cands |-> p.cands, error |-> error, trials |-> p.trials]

genmove_cmdNothing == [action |-> "", cands |-> << >>, trials |-> << >>]

\* lines 470-476 with the move picked at line 465 or 468
genmove_cmdMove(S, move, color, p) ==
    IF is_legal(S, move, color)
    THEN genmove_cmdDone(play_move(S, move, color), "move", move, p, FALSE)
    ELSE genmove_cmdDone(S, "Illegal move", move, p, FALSE)

\* lines 465-476, moves being the list the policy returned (moves[0] of an
\* empty list raises IndexError)
genmove_cmdPick(S, color, p) ==
    IF Len(p.cands) = 0
    THEN genmove_cmdDone(S, "", None, p, TRUE)
    ELSE genmove_cmdMove(S, p.cands[1], color, p)

\* lines 463-465
genmove_cmdRule(r, color) ==
    genmove_cmdPick(r.S, color, [action |-> r.action, cands |-> r.moves,
                                 trials |-> r.trials])

\* lines 466-468
genmove_cmdRandom(r, color) ==
    genmove_cmdPick(r.S, color, [action |-> "Random", cands |-> r.ret,
                                 trials |-> r.trials])

\* lines 460-476, S1 being the object after line 462 and t what the tactical
\* rules gave on it
genmove_cmdPolicy(S1, t, sh) ==
    IF policy = "rule_based"
    THEN genmove_cmdRule(rule_basedRandom(t, sh), S1.current_player)
    ELSE genmove_cmdRandom(random(S1, sh), S1.current_player)

\* lines 446-476 on colour text c
genmove_cmdOn(S, early, c, t, sh) ==
    IF early # ""
    THEN genmove_cmdDone(S, early, None, genmove_cmdNothing, FALSE)
    ELSE IF Lower(c) \notin ColourKeys
    THEN genmove_cmdDone(S, "", None, genmove_cmdNothing, TRUE)
    ELSE genmove_cmdPolicy([S EXCEPT !.current_player =
                                         color_to_int(Lower(c))], t, sh)

GenmoveTexts == {"b", "W"}

genmove_cmd(c) ==
    /\ ~last.error
    /\ steps < MaxCommands
    /\ last.cmd # "play1"
    /\ \E early \in { genmove_cmdEarly(Self) } :
        \E t \in { IF early = "" /\ policy = "rule_based"
                   THEN rule_basedTactics(
                            [Self EXCEPT !.current_player =
                                             color_to_int(Lower(c))])
                   ELSE [S |-> Self, action |-> "", moves |-> << >>] } :
         \E sh \in ShuffleChoices :
            \E r \in { genmove_cmdOn(Self, early, c, t, sh) } :
               /\ board' = r.S.board
               /\ current_player' = r.S.current_player
               /\ moves' = r.S.moves
               /\ last' = [NoLast EXCEPT !.cmd = "genmove",
                                         !.player = current_player,
                                         !.pre = Pre, !.answer = r.answer,
                                         !.ret = r.point,
                                         !.action = r.action,
                                         !.cands = r.cands,
                                         !.trials = r.trials,
                                         !.error = r.error,
                                         !.args = << c, sh >>]
    /\ prev' = Brief(last)
    /\ steps' = steps + 1
    /\ UNCHANGED << size, policy, solver >>

\* Board.row_start(row)
row_start(row, n) == row * NS(n) + 1

\* gogui_rules_board_cmd, lines 504-521: the rows from the top one down, each
\* a list of the values read; the `assert False` of line 519 is reached when
\* a value read is none of BLACK, WHITE, EMPTY
\* (first, the loop as it would be if it started one row higher)
gogui_rules_boardRowsAbove(S) ==
    [k \in 1..S.size |->
        [i \in 1..S.size |->
            S.board[row_start(S.size - k + 2, S.size) + i - 1]]]

gogui_rules_boardRows(S) ==
    [k \in 1..S.size |->
        [i \in 1..S.size |->
            S.board[row_start(S.size - k + 1, S.size) + i - 1]]]

gogui_rules_boardAsserts(rows) ==
    \E k \in 1..Len(rows) : \E i \in 1..Len(rows[k]) :
        rows[k][i] \notin {BLACK, WHITE, EMPTY}

gogui_rules_board_cmd ==
    /\ ~last.error
    /\ steps < MaxCommands
    /\ last.cmd # "play1"
    /\ \E rows \in { gogui_rules_boardRows(Self) } :
          last' = [NoLast EXCEPT !.cmd = "gogui-rules_board",
                                 !.player = current_player, !.pre = Pre,
                                 !.response = rows,
                                 !.error = gogui_rules_boardAsserts(rows)]
    /\ prev' = Brief(last)
    /\ steps' = steps + 1
    /\ UNCHANGED << size, board, current_player, policy, moves, solver >>

GamePolicy(arg) ==
    /\ steps < MaxCommands
    /\ last.cmd # "play1"
    /\ policy_cmdStep(arg)
    /\ steps' = steps + 1

GamePolicyMoves ==
    /\ steps < MaxCommands
    /\ last.cmd # "play1"
    /\ policy_moves_cmdStep
    /\ steps' = steps + 1

\* the texts a play of a game is made with: b1 and "pass"
GameMoveTexts == {PassText, CoordText(2, 1)}
GameColourTexts == {"b", "W"}

NextGame ==
    \/ \E c \in GameColourTexts : \E m \in GameMoveTexts : play_cmd(c, m)
    \/ \E c \in GenmoveTexts : genmove_cmd(c)
    \/ \E arg \in PolicyArgs : GamePolicy(arg)
    \/ GamePolicyMoves
    \/ gogui_rules_board_cmd

SpecGame == Init /\ [][NextGame]_vars

(***************************************************************************)
(* assignment2: solve on the empty board of side Size3, one call of the    *)
(* search per step.  The search of lines 269-342 visits every order of     *)
(* filling the board, so here it runs as a machine: solver carries, next   *)
(* to the attributes of the connection, the position of the run (pc), the  *)
(* function about to be entered (fn), the value being returned (ret), the  *)
(* deadline and the number of clock reads of the solve, and stack, one     *)
(* frame [fn, empty, i] for every call under way: its function, its local  *)
(* list of empty points and the index of its loop.  board and              *)
(* current_player are those of self.board while the search runs.  Of       *)
(* self.move the code only ever reads the last element (lines 409, 424,    *)
(* 482), so the machine keeps no more than that element.  A call that has  *)
(* at most Fold3 cells left to fill is followed to its return within the   *)
(* step that enters it.                                                    *)
(***************************************************************************)
\* the connection object of the run
Walk3 ==
    [size |-> size, board |-> board, current_player |-> current_player,
     move |-> solver.move, move_2 |-> solver.move_2,
     has_move_2 |-> solver.has_move_2, winner |-> solver.winner,
     reads |-> solver.reads, depth |-> 0, log |-> << >>,
     primary |-> [ret |-> "", events |-> 0]]

\* the last element of self.move, all of the list that is kept
Latest(Z) ==
    [Z EXCEPT !.move = IF Len(@) = 0 THEN @ ELSE << @[Len(@)] >>,
              !.log = << >>]

\* the function a call of fn recurses into (lines 298 and 334)
Callee(fn) == IF fn = "OR" THEN "AND" ELSE "OR"

\* the run as an action leaves it: the object Z, and the position
Run3(Z, pc, fn, ret, stack) ==
    [Z |-> Latest(Z), pc |-> pc, fn |-> fn, ret |-> ret, stack |-> stack]

\* lines 288-297 and 326-333: the stone of an iteration of fn, up to the
\* recursive call
minimaxBooleanStone(Z, fn, point) ==
    IF fn = "OR"
    THEN minimaxBooleanORNote(Z, detect_five_in_a_row(Z), point)
    ELSE minimaxBooleanANDNote(Z, detect_five_in_a_row(Z), point)

minimaxBooleanIteration(Z, fn, point) ==
    minimaxBooleanStone(IF fn = "OR" THEN minimaxBooleanORPlay(Z, point)
                        ELSE minimaxBooleanANDPlay(Z, point),
                        fn, point)

\* lines 278-285 and 315-323: a call that finds the board full
minimaxBooleanLeaf(Z, fn) ==
    IF fn = "OR" THEN minimaxBooleanORFull(Z, detect_five_in_a_row(Z))
    ELSE minimaxBooleanANDFull(Z, detect_five_in_a_row(Z))

\* a call that returns r = [ret, Z] at once
Search3Return(r, stack) == Run3(r.Z, "return", "", r.ret, stack)

\* lines 276-297 and 314-333: a call of fn that found the deadline not
\* exceeded, empty being its list of empty points
Search3Open(Z, fn, empty, stack) ==
    IF Len(empty) = 0 THEN Search3Return(minimaxBooleanLeaf(Z, fn), stack)
    ELSE Run3(minimaxBooleanIteration([Z EXCEPT !.reads = @ + 1], fn,
                                      empty[1]),
              "call", Callee(fn), "",
              Append(stack, [fn |-> fn, empty |-> empty, i |-> 1]))

\* lines 269-297 and 307-333: a call of fn up to its first recursive call or
\* its return
Search3EnterOn(Z, fn, d, stack) ==
    IF Expired(Z.reads + 1, d)
    THEN Search3Return(minimaxBooleanExpired(Z, fn), stack)
    ELSE Search3Open(Z, fn, get_empty_points(Z), stack)

\* lines 299-305 and 335-341: the recursive call of iteration top.i came
\* back with ret and the stone is taken off; the loop ends or goes on to
\* the stone of the next iteration
Search3Undone(Z, ret, top, below) ==
    IF ret = "w" \/ ret = "b" \/ top.i = Len(top.empty)
    THEN Run3(Z, "return", "", ret, below)
    ELSE Run3(minimaxBooleanIteration(Z, top.fn, top.empty[top.i + 1]),
              "call", Callee(top.fn), "",
              Append(below, [top EXCEPT !.i = @ + 1]))

Search3BackOn(Z, ret, stack) ==
    Search3Undone(set_color(Z, EMPTY,
                            stack[Len(stack)].empty[stack[Len(stack)].i]),
                  ret, stack[Len(stack)], SubSeq(stack, 1, Len(stack) - 1))

\* one call or one return of the search on the run x
Search3Micro(x, d) ==
    IF x.pc = "call" THEN Search3EnterOn(x.Z, x.fn, d, x.stack)
    ELSE Search3BackOn(x.Z, x.ret, x.stack)

\* the run x, about to enter a call, carried on until that call returns:
\* after each recursive call of its loop has returned (Search3Whole) the
\* loop takes its stone back and either goes on (Search3Rest) or ends
RECURSIVE Search3Whole(_, _)
RECURSIVE Search3Rest(_, _)
Search3Loop(y, d) ==
    IF y.pc = "return" THEN y ELSE Search3Rest(y, d)

Search3Rest(y, d) == Search3Loop(Search3Micro(Search3Whole(y, d), d), d)

Search3Whole(x, d) == Search3Loop(Search3Micro(x, d), d)

\* a call of fn: one that has more than Fold3 cells to fill is followed up
\* to its first recursive call, one that has fewer is followed to its return
Search3Step(Z, fn, d, stack, todo) ==
    IF todo <= Fold3
    THEN Search3Whole(Run3(Z, "call", fn, "", stack), d)
    ELSE Search3EnterOn(Z, fn, d, stack)

\* the variables after a step of the search
Put3(x) ==
    /\ board' = x.Z.board
    /\ current_player' = x.Z.current_player
    /\ solver' = [solver EXCEPT !.move = x.Z.move, !.move_2 = x.Z.move_2,
                                !.has_move_2 = x.Z.has_move_2,
                                !.winner = x.Z.winner, !.reads = x.Z.reads,
                                !.pc = x.pc, !.fn = x.fn, !.ret = x.ret,
                                !.stack = x.stack]
    /\ UNCHANGED << size, policy, moves, last, prev, steps >>

\* a call of the search is entered
Search3Enter ==
    /\ solver.pc = "call"
    /\ Put3(Search3Step(Walk3, solver.fn, solver.deadline, solver.stack,
                         Len(get_empty_points(Walk3))))

\* a call of the search returns to the loop of its caller
Search3Back ==
    /\ solver.pc = "return"
    /\ solver.stack # << >>
    /\ Put3(Search3BackOn(Walk3, solver.ret, solver.stack))

\* lines 388-406: solve_cmd up to its call of the search, with deadline d;
\* a five-in-a-row on the board ends the command at once
Solve3Begin(Z, result, d) ==
    IF result = 1 \/ result = 2
    THEN [done |-> TRUE, out |-> solveFrom(Z, result, d)]
    ELSE [done |-> FALSE,
          out |-> [Z |-> [Z EXCEPT !.move_2 = << >>, !.has_move_2 = TRUE]]]

\* what a solve leaves in last
Solved3(out, d, player, pre) ==
    [NoLast EXCEPT !.cmd = "solve", !.player = player, !.pre = pre,
                   !.action = out.output.tag, !.ret = out.output.mv,
                   !.error = out.error,
                   !.trials = << [deadline |-> d, reads |-> out.Z.reads,
                                  searched |-> out.searched,
                                  rescued |-> out.rescued] >>]

Solve3StartOn(b, d) ==
    /\ board' = b.out.Z.board
    /\ current_player' = b.out.Z.current_player
    /\ solver' = [solver EXCEPT !.move_2 = b.out.Z.move_2,
                                !.has_move_2 = b.out.Z.has_move_2,
                                !.winner = b.out.Z.winner,
                                !.reads = 0, !.deadline = d,
                                !.player = current_player,
                                !.pre = Pre,
                                !.pc = IF b.done THEN "done" ELSE "call",
                                !.fn = IF current_player = 1 THEN "OR"
                                       ELSE "AND",
                                !.solves = @ + 1]
    /\ last' = IF b.done THEN Solved3(b.out, d, current_player, Pre)
               ELSE last
    /\ prev' = IF b.done THEN Brief(last) ELSE prev

Solve3Start(d) ==
    /\ solver.pc = "idle"
    /\ ~last.error
    /\ Solve3StartOn(Solve3Begin([Walk3 EXCEPT !.winner = "unknown",
                                               !.reads = 0],
                                 detect_five_in_a_row(Walk3), d), d)
    /\ UNCHANGED << size, policy, moves, steps >>

\* lines 408-447: the search came back to solve_cmd with ret
Solve3FinishOn(out) ==
    /\ board' = out.Z.board
    /\ current_player' = out.Z.current_player
    /\ solver' = [solver EXCEPT !.move = out.Z.move,
                                !.move_2 = out.Z.move_2,
                                !.winner = out.Z.winner,
                                !.reads = out.Z.reads,
                                !.pc = "done", !.ret = ""]
    /\ last' = Solved3(out, solver.deadline, solver.player, solver.pre)
    /\ prev' = Brief(last)

Solve3Out(Z2) ==
    solvePicked(Z2, solvePick(Z2), solver.deadline, solver.player)

Solve3Finish ==
    /\ solver.pc = "return"
    /\ solver.stack = << >>
    /\ Solve3FinishOn(Solve3Out(solvePrimary(solveWinner(
                          [ret |-> solver.ret, Z |-> Walk3]))))
    /\ UNCHANGED << size, policy, moves, steps >>

\* a connection on which nothing was solved yet, after `boardsize Size3`;
\* White is to move after a pass of Black
Init3 ==
    /\ size = Size3
    /\ board = EmptyBoard(Size3)
    /\ current_player \in {BLACK, WHITE}
    /\ policy = "rule_based"
    /\ moves = << >>
    /\ solver = [timelimit |-> 1, move |-> << >>, move_2 |-> << >>,
                 has_move_2 |-> FALSE, winner |-> "", solves |-> 0,
                 pc |-> "idle", fn |-> "", ret |-> "", stack |-> << >>,
                 deadline |-> 0, reads |-> 0, player |-> EMPTY,
                 pre |-> << >>]
    /\ last = NoLast
    /\ prev = Brief(NoLast)
    /\ steps = 0

Next3 ==
    \/ \E d \in Deadlines : Solve3Start(d)
    \/ Search3Enter
    \/ Search3Back
    \/ Solve3Finish

Spec3 == Init3 /\ [][Next3]_vars

(***************************************************************************)
(* assignment2: genmove, which runs the search of solve from the board as  *)
(* it stands and plays the move the search recorded.                       *)
(***************************************************************************)
\* lines 454-460: "resign" when the opponent of the player to move has five
\* in a row, "pass" when no cell is empty, "" otherwise
genmove_cmd2Early(Z, result) ==
    IF result = opponent(Z.current_player) THEN "resign"
    ELSE IF Len(get_empty_points(Z)) = 0 THEN "pass"
    ELSE ""

\* the first event of log at which a stone completed five in a row (lines
\* 291-296 and 329-334, where self.move_2 is appended to); 0 if there is none
FirstFiveAt(log) ==
    LET hits == { k \in 1..Len(log) :
                    log[k].kind = "play" /\ log[k].five \in {BLACK, WHITE} }
    IN IF hits = {} THEN 0 ELSE CHOOSE k \in hits : \A j \in hits : k <= j

\* the events up to the k-th whose stone is still on the board at the k-th
SearchStones(log, k) ==
    { j \in 1..k :
        /\ log[j].kind = "play"
        /\ \A m \in (j + 1)..k :
              ~(log[m].kind = "back" /\ log[m].depth = log[j].depth) }

\* the board at event k of a search that started from b
SearchBoard(b, log, k) ==
    [p \in DOMAIN b |->
        IF \E j \in SearchStones(log, k) : log[j].point = p
        THEN log[CHOOSE j \in SearchStones(log, k) : log[j].point = p].colour
        ELSE b[p]]

\* what genmove leaves and answers: [Z, answer, point, error]
genmove_cmd2Done(Z, answer, point, error) ==
    [Z |-> Z, answer |-> answer, point |-> point, error |-> error]

\* lines 291-296 and 329-334 without the attribute move_2: the append at
\* event k of the search from Z0 raises AttributeError, the stones of the
\* iterations under way stay on the board
genmove_cmd2Raised(Z0, Z, k) ==
    genmove_cmd2Done(
        [Z EXCEPT !.board = SearchBoard(Z0.board, Z.log, k),
                  !.current_player = opponent(Z.log[k].colour),
                  !.winner = IF Z.log[k].five = BLACK THEN "b" ELSE "w",
                  !.move_2 = << >>],
        "", None, TRUE)

\* lines 484-488: the move is played if its cell is empty
genmove_cmd2Move(Z, move, color) ==
    IF is_legal(Z, move, color)
    THEN genmove_cmd2Done(play_move(Z, move, color), "move", move, FALSE)
    ELSE genmove_cmd2Done(Z, "Illegal move", move, FALSE)

\* lines 471-488: the move recorded by the search; self.move[-1] raises
\* IndexError on an empty list
genmove_cmd2Pick(Z, pick, color) ==
    IF pick.error THEN genmove_cmd2Done(Z, "", None, TRUE)
    ELSE genmove_cmd2Move(Z, pick.mv, color)

\* lines 470-488 after the search from Z0 left Z: without the attribute
\* move_2 the search raised at its first five in a row, or line 472 raises
genmove_cmd2After(Z0, Z, color, k) ==
    IF ~Z0.has_move_2
    THEN IF k > 0 THEN genmove_cmd2Raised(Z0, Z, k)
         ELSE genmove_cmd2Done(Z, "", None, TRUE)
    ELSE genmove_cmd2Pick(Z, solvePick(Z), color)

genmove_cmd2Searched(Z0, r, color) ==
    genmove_cmd2After(Z0, r.Z, color, FirstFiveAt(r.Z.log))

\* lines 461-488: the search for color from Z
genmove_cmd2Search(Z, color, d) ==
    genmove_cmd2Searched(Z,
                         IF color = 1 THEN minimaxBooleanOR(Z, d)
                         ELSE minimaxBooleanAND(Z, d),
                         color)

\* genmove_cmd, lines 449-488, c being args[0].lower() and early what lines
\* 454-460 answer
genmove_cmd2On(Z, early, c, d) ==
    IF early # "" THEN genmove_cmd2Done(Z, early, None, FALSE)
    ELSE IF c \notin ColourKeys THEN genmove_cmd2Done(Z, "", None, TRUE)
    ELSE genmove_cmd2Search([Z EXCEPT !.current_player = color_to_int(c),
                                      !.reads = 0],
                            color_to_int(c), d)

genmove_cmd2(c, d) ==
    /\ ~last.error
    /\ solver.solves + steps < MaxCommands
    /\ \E r \in { genmove_cmd2On(SelfSolver,
                                 genmove_cmd2Early(
                                     SelfSolver,
                                     detect_five_in_a_row(SelfSolver)),
                                 Lower(c), d) } :
          /\ board' = r.Z.board
          /\ current_player' = r.Z.current_player
          /\ solver' = [solver EXCEPT !.move = r.Z.move,
                                      !.move_2 = r.Z.move_2,
                                      !.winner = r.Z.winner]
          /\ last' = [NoLast EXCEPT !.cmd = "genmove2",
                                    !.player = current_player,
                                    !.pre = Pre, !.answer = r.answer,
                                    !.ret = r.point, !.error = r.error,
                                    !.args = << c >>,
                                    !.trials = << [deadline |-> d,
                                                   reads |-> r.Z.reads] >>]
    /\ prev' = Brief(last)
    /\ steps' = steps + 1
    /\ UNCHANGED << size, policy, moves >>

\* output.sort() (lines 505 and 493): the texts sort by column letter, then
\* by row number (rows of one digit); the key of a text [letter, number]
LegalKey(t, n) == t.letter * NS(n) + t.number

LegalSorted(ts, n) ==
    LET ks == Ascending({ LegalKey(ts[k], n) : k \in 1..Len(ts) })
    IN Listed([i \in 1..Len(ks) |->
                  [letter |-> ks[i] \div NS(n), number |-> ks[i] % NS(n)]],
              Len(ks))

\* gogui_rules_legal_moves_cmd, assignment2 lines 496-510 and assignment3
\* lines 484-498: nothing once a five in a row is on the board, otherwise
\* the empty cells as sorted coordinate texts
gogui_rules_legal_movesOn(S, result) ==
    IF result # EMPTY THEN << >>
    ELSE LegalSorted(Formatted(get_empty_points(S), S.size), S.size)

gogui_rules_legal_moves_cmd ==
    /\ ~last.error
    /\ solver.solves + steps < MaxCommands
    /\ last' = [NoLast EXCEPT !.cmd = "gogui-rules_legal_moves",
                              !.player = current_player, !.pre = Pre,
                              !.response =
                                  gogui_rules_legal_movesOn(
                                      Self, detect_five_in_a_row(Self))]
    /\ prev' = Brief(last)
    /\ steps' = steps + 1
    /\ UNCHANGED << size, board, current_player, policy, moves, solver >>

\* a solve as one of the commands of a game
MoveSolve(d) ==
    /\ solver.solves + steps < MaxCommands
    /\ SolveCmd(d)

NextMove ==
    \/ \E d \in Deadlines : MoveSolve(d)
    \/ \E c \in GenmoveTexts, d \in Deadlines : genmove_cmd2(c, d)
    \/ gogui_rules_legal_moves_cmd

SpecMove == Init /\ [][NextMove]_vars

(***************************************************************************)
(* gogui-rules_final_result in assignment1 and in assignment2/3.           *)
(***************************************************************************)
\* board.get_black_points() / get_white_points(): the points holding colour c
PointsOf(S, c) == { p \in DOMAIN S.board : S.board[p] = c }

\* assignment1 lines 263-286 and 292-315: some point of ps has the four
\* next points downwards, to the right, or along either diagonal in ps
final_resultWin(ps, n) ==
    \E item \in ps :
        \E dir \in {NS(n), 1, NS(n) - 1, NS(n) + 1} :
            \A k \in 1..4 : (item + dir * k) \in ps

\* assignment1 lines 317-325
final_resultAnswer1(S, black_win, white_win) ==
    IF black_win THEN "black"
    ELSE IF white_win THEN "white"
    ELSE IF Len(get_empty_points(S)) = 0 THEN "draw"
    ELSE "unknown"

\* gogui_rules_final_result_cmd of assignment1, lines 256-325
gogui_rules_final_result1(S) ==
    final_resultAnswer1(S, final_resultWin(PointsOf(S, BLACK), S.size),
                        final_resultWin(PointsOf(S, WHITE), S.size))

\* assignment3 lines 527-533 (assignment2: 554-560)
final_resultAnswer(result) ==
    IF result = BLACK THEN "black"
    ELSE IF result = WHITE THEN "white"
    ELSE "unknown"

\* gogui_rules_final_result_cmd of assignment3, lines 523-533, and of
\* assignment2, lines 550-560
gogui_rules_final_result(S) ==
    IF Len(get_empty_points(S)) = 0 THEN "draw"
    ELSE final_resultAnswer(detect_five_in_a_row(S))

\* a query that answers `answer`
Answered(cmd, answer) ==
    /\ last' = [NoLast EXCEPT !.cmd = cmd, !.player = current_player,
                              !.pre = Pre, !.answer = answer]
    /\ prev' = Brief(last)
    /\ steps' = steps + 1
    /\ UNCHANGED << size, board, current_player, policy, moves, solver >>

gogui_rules_final_result_cmd ==
    /\ ~last.error
    /\ steps < MaxCommands
    /\ Answered("gogui-rules_final_result", gogui_rules_final_result(Self))

gogui_rules_final_result_cmd1 ==
    /\ ~last.error
    /\ steps < MaxCommands
    /\ Answered("gogui-rules_final_result1", gogui_rules_final_result1(Self))

NextResult ==
    \/ \E c \in GameColourTexts : \E m \in GameMoveTexts : play_cmd(c, m)
    \/ gogui_rules_final_result_cmd
    \/ gogui_rules_final_result_cmd1

SpecResult == Init /\ [][NextResult]_vars

(***************************************************************************)
(* assignment2: the timelimit command.  An argument is the text of one     *)
(* word of the command line, kept as its sequence of characters; int() is  *)
(* modelled on the characters as Python reads them: an optional sign, then *)
(* digits, where single underscores may stand between two digits.          *)
(***************************************************************************)
DigitValue ==
    ("0" :> 0) @@ ("1" :> 1) @@ ("2" :> 2) @@ ("3" :> 3) @@ ("4" :> 4) @@
    ("5" :> 5) @@ ("6" :> 6) @@ ("7" :> 7) @@ ("8" :> 8) @@ ("9" :> 9)

IsDigit(ch) == ch \in DOMAIN DigitValue

RECURSIVE intDigits(_, _)
intDigits(t, acc) ==
    IF t = << >> THEN acc
    ELSE IF Head(t) = "_" THEN intDigits(Tail(t), acc)
    ELSE intDigits(Tail(t), 10 * acc + DigitValue[Head(t)])

intBody(t) ==
    IF t # << >> /\ Head(t) \in {"+", "-"} THEN Tail(t) ELSE t

intLiteral(t) ==
    /\ t # << >>
    /\ IsDigit(t[1])
    /\ IsDigit(t[Len(t)])
    /\ \A i \in 1..Len(t) : IsDigit(t[i]) \/ t[i] = "_"
    /\ \A i \in 1..(Len(t) - 1) : ~(t[i] = "_" /\ t[i + 1] = "_")

\* int(text): raised is the ValueError of a text that is no integer literal.
int(t) ==
    IF ~intLiteral(intBody(t)) THEN [raised |-> TRUE, value |-> 0]
    ELSE [raised |-> FALSE,
          value |-> IF Head(t) = "-" THEN 0 - intDigits(intBody(t), 0)
                    ELSE intDigits(intBody(t), 0)]

TimelimitRange ==
    "ERROR: The Timelimit has to be between 1 and 100 seconds."

TimelimitNumber ==
    "ERROR: Please choose a number between 1 and 100 as an argument."

\* The variant that stores every integer it is given (no range test).
timelimit_cmdUnchecked(timelimit, args) ==
    IF args = << >> \/ int(args[1]).raised
    THEN [timelimit |-> timelimit, answer |-> TimelimitNumber]
    ELSE [timelimit |-> int(args[1]).value, answer |-> ""]

\* timelimit_cmd on the limit in force: the new limit and the response.
\* args[0] of an empty list and int() of a non-integer raise inside the try.
timelimit_cmdOn(timelimit, args) ==
    IF args = << >> \/ int(args[1]).raised
    THEN [timelimit |-> timelimit, answer |-> TimelimitNumber]
    ELSE IF int(args[1]).value > 100 \/ int(args[1]).value < 1
    THEN [timelimit |-> timelimit, answer |-> TimelimitRange]
    ELSE [timelimit |-> int(args[1]).value, answer |-> ""]

TimeTexts ==
    { << "1" >>, << "7" >>, << "1", "0", "0" >>, << "0", "4", "2" >>,
      << "+", "9" >>, << "1", "_", "0" >>,
      << "0" >>, << "1", "0", "1" >>, << "-", "5" >>, << "9", "9", "9" >>,
      << "5", ".", "5" >>, << "a", "b", "c" >>, << "1", "e", "1" >>,
      << "_", "3" >>, << "-" >> }

TimeArgs == { << >> } \cup { << t >> : t \in TimeTexts }

timelimit_cmd(args) ==
    /\ ~last.error
    /\ \E r \in { timelimit_cmdOn(solver.timelimit, args) } :
          /\ solver' = [solver EXCEPT !.timelimit = r.timelimit]
          /\ last' = [NoLast EXCEPT !.cmd = "timelimit",
                                    !.player = current_player, !.pre = Pre,
                                    !.args = args, !.answer = r.answer]
    /\ prev' = Brief(last)
    /\ UNCHANGED << size, board, current_player, policy, moves, steps >>

NextTime ==
    \E args \in TimeArgs : timelimit_cmd(args)

SpecTime == Init /\ [][NextTime]_vars

(***************************************************************************)
(* Properties.  `last` holds the command or call just made: last.pre is    *)
(* the state it started from and last.player the player to move then.      *)
(***************************************************************************)
RuleCalls ==
    {"win", "win_modified", "openFour", "blockOpenFour", "random",
     "rule_based"}

\* decide("rule_based"): policy_moves answered under the rule_based policy
Decided(l) == l.cmd = "policy_moves" /\ l.pre.policy = "rule_based"

EmptyCells(b) == { p \in DOMAIN b : b[p] = EMPTY }

\* colour c holds all five cells of some line
FiveOf(b, n, c) ==
    \E i \in 1..Len(FiveLines[n]) :
        \A k \in 1..5 : b[FiveLines[n][i].cells[k]] = c

NoFive(b, n) == ~FiveOf(b, n, BLACK) /\ ~FiveOf(b, n, WHITE)

\* the empty cells on which one stone of colour c completes five-in-a-row
WinCells(b, n, c) ==
    { p \in EmptyCells(b) :
        \E i \in 1..Len(FiveLines[n]) :
            /\ p \in SeqSet(FiveLines[n][i].cells)
            /\ \A k \in 1..5 : \/ FiveLines[n][i].cells[k] = p
                               \/ b[FiveLines[n][i].cells[k]] = c }

\* colour c has a run of exactly four with an empty cell at one end at least
HasFourWithOpenEnd(b, n, c) ==
    \E i \in 1..Len(FourLines[n]) :
        LET w == FourLines[n][i]
        IN /\ \A k \in 1..4 : b[w.cells[k]] = c
           /\ At(b, w.start - w.dir) # c
           /\ At(b, w.start + 4 * w.dir) # c
           /\ (At(b, w.start - w.dir) = EMPTY
               \/ At(b, w.start + 4 * w.dir) = EMPTY)

\* a stone of colour c on the empty cell p makes four in a row through p with
\* both cells beyond the run empty
CreatesOpenFour(b, n, p, c) ==
    /\ b[p] = EMPTY
    /\ \E i \in 1..Len(FourLines[n]) :
        LET w == FourLines[n][i]
        IN /\ p \in SeqSet(w.cells)
           /\ \A k \in 1..4 : w.cells[k] = p \/ b[w.cells[k]] = c
           /\ At(b, w.start - w.dir) = EMPTY
           /\ At(b, w.start + 4 * w.dir) = EMPTY
           /\ w.start - w.dir # p
           /\ w.start + 4 * w.dir # p

\* C1: after win, win_modified, openFour, blockOpenFour, random and after the
\* whole cascade rule_based, every cell of the board holds the value it held
\* immediately before the call.
C1_RulesRestoreBoard ==
    last.cmd \in RuleCalls => board = last.pre.board

\* the cascade ran through all four tactical rules and N rollouts on a board
\* with MaxEmpty empty cells, and the board is as it was
C1_Witness ==
    /\ last.cmd = "rule_based"
    /\ last.action = "Random"
    /\ Len(last.trials) = N
    /\ Cardinality(EmptyCells(last.pre.board)) = MaxEmpty
    /\ board = last.pre.board

\* C2: after the solve command (primary search, rescue pass, early exit on a
\* decisive child, deadline expiry at any depth; also when it fails for lack
\* of a recorded move) every cell of the board holds the value it held before
\* the command.
C2_SolveRestoresBoard ==
    last.cmd = "solve" => board = last.pre.board

\* a solve whose primary search ended on a decisive child, whose rescue pass
\* ran and was cut short by the deadline
C2_Witness ==
    /\ last.cmd = "solve"
    /\ ~last.error
    /\ last.trials[1].rescued
    /\ last.trials[1].deadline <= MaxClock
    /\ last.trials[1].reads > last.trials[1].deadline
    /\ board = last.pre.board

\* C3: decide under rule_based twice in a row, with no command in between,
\* gives the same action and the same candidate set the second time.  (Stated
\* for a first answer found by a tactical rule, where no shuffle is involved.)
C3_DecideIdempotent ==
    (/\ Decided(last)
     /\ prev.cmd = "policy_moves"
     /\ prev.policy = "rule_based"
     /\ prev.action # "Random")
    => (/\ last.action = prev.action
        /\ SeqSet(last.cands) = SeqSet(prev.cands))

\* C4: on a board with no five-in-a-row where some empty cell completes five
\* for the mover, decide("rule_based") reports Win and the candidates are
\* exactly those cells, each once.
C4_WinExact ==
    (/\ Decided(last)
     /\ NoFive(last.pre.board, size)
     /\ WinCells(last.pre.board, size, last.player) # {})
    => (/\ last.action = "Win"
        /\ SeqSet(last.cands) = WinCells(last.pre.board, size, last.player)
        /\ Len(last.cands) =
               Cardinality(WinCells(last.pre.board, size, last.player)))

\* a decide that reported Win with two completing cells
C4_Witness ==
    /\ Decided(last)
    /\ NoFive(last.pre.board, size)
    /\ Cardinality(WinCells(last.pre.board, size, last.player)) >= 2
    /\ last.action = "Win"
    /\ Len(last.cands) >= 2

\* C5 as written: when the mover has no completing cell and the opponent has
\* one, decide("rule_based") reports BlockWin and the candidates are exactly
\* the opponent's completing cells.
C5_BlockWinExactAnyBoard ==
    (/\ Decided(last)
     /\ WinCells(last.pre.board, size, last.player) = {}
     /\ WinCells(last.pre.board, size, opponent(last.player)) # {})
    => (/\ last.action = "BlockWin"
        /\ SeqSet(last.cands) =
               WinCells(last.pre.board, size, opponent(last.player)))

\* C5 on a board with no five-in-a-row
C5_BlockWinExact ==
    (/\ Decided(last)
     /\ NoFive(last.pre.board, size)
     /\ WinCells(last.pre.board, size, last.player) = {}
     /\ WinCells(last.pre.board, size, opponent(last.player)) # {})
    => (/\ last.action = "BlockWin"
        /\ SeqSet(last.cands) =
               WinCells(last.pre.board, size, opponent(last.player))
        /\ Len(last.cands) =
               Cardinality(WinCells(last.pre.board, size,
                                    opponent(last.player))))

\* a decide that reported BlockWin with two cells to block
C5_Witness ==
    /\ Decided(last)
    /\ NoFive(last.pre.board, size)
    /\ WinCells(last.pre.board, size, last.player) = {}
    /\ Cardinality(WinCells(last.pre.board, size, opponent(last.player))) >= 2
    /\ last.action = "BlockWin"

\* the rule functions applied one by one to the position a decide started from
Fresh(l) == [size |-> size, board |-> l.pre.board,
             current_player |-> l.player, moves |-> << >>]

\* the first rule whose own candidate list is not empty, with that list
FirstRule(l) ==
    LET w == win(Fresh(l), l.player).moves
    IN IF w # << >> THEN [action |-> "Win", moves |-> w]
       ELSE LET bw == win(Fresh(l), opponent(l.player)).moves
            IN IF bw # << >> THEN [action |-> "BlockWin", moves |-> bw]
               ELSE LET o == openFour(Fresh(l), l.player).moves
                    IN IF o # << >> THEN [action |-> "OpenFour", moves |-> o]
                       ELSE LET bo == blockOpenFour(Fresh(l),
                                                    opponent(l.player)).moves
                            IN IF bo # << >>
                               THEN [action |-> "BlockOpenFour", moves |-> bo]
                               ELSE [action |-> "Random", moves |-> << >>]

C7_OpenFourSound ==
    (Decided(last) /\ last.action = "OpenFour")
    => \A c \in SeqSet(last.cands) :
         \A o \in EmptyCells(last.pre.board) \ {c} :
            WinCells([last.pre.board EXCEPT ![c] = last.player,
                                            ![o] = opponent(last.player)],
                     size, last.player) # {}

\* C8: when neither side has a completing cell and the mover's stone on some
\* empty cell c creates an open four, the cascade reports OpenFour and c is
\* among the candidates.
C8_OpenFourComplete ==
    (/\ Decided(last)
     /\ NoFive(last.pre.board, size)
     /\ WinCells(last.pre.board, size, last.player) = {}
     /\ WinCells(last.pre.board, size, opponent(last.player)) = {})
    => \A c \in EmptyCells(last.pre.board) :
         CreatesOpenFour(last.pre.board, size, c, last.player)
         => (last.action = "OpenFour" /\ c \in SeqSet(last.cands))

\* C9: every candidate c reported under BlockOpenFour is an empty cell such
\* that an opponent stone on c gives the opponent a four-in-a-row with an open
\* extension and a further empty cell completing five; no cell is listed
\* twice.
C9_BlockOpenFourSound ==
    (Decided(last) /\ last.action = "BlockOpenFour")
    => (/\ \A c \in SeqSet(last.cands) :
             /\ last.pre.board[c] = EMPTY
             /\ HasFourWithOpenEnd(
                    [last.pre.board EXCEPT ![c] = opponent(last.player)],
                    size, opponent(last.player))
             /\ WinCells([last.pre.board EXCEPT ![c] = opponent(last.player)],
                         size, opponent(last.player)) # {}
        /\ Len(last.cands) = Cardinality(SeqSet(last.cands)))

\* a decide that reported BlockOpenFour for a cell after which the opponent
\* would have two completing cells
C9_Witness ==
    /\ Decided(last)
    /\ last.action = "BlockOpenFour"
    /\ \E c \in SeqSet(last.cands) :
         Cardinality(WinCells([last.pre.board EXCEPT
                                  ![c] = opponent(last.player)],
                              size, opponent(last.player))) >= 2

\* C10: a cell is a candidate of the Random rollout only if it was the first
\* cell assigned in some trial whose outcome, after the walk of the whole
\* shuffled list, was five-in-a-row for the mover or a draw (board full, no
\* five-in-a-row); a trial that ends with five-in-a-row for the opponent
\* contributes no candidate.
C10_RandomRecordsGoodTrials ==
    (last.cmd = "random" /\ NoFive(last.pre.board, size))
    => (/\ \A c \in SeqSet(last.cands) :
             \E k \in 1..Len(last.trials) :
                /\ last.trials[k].first = c
                /\ \/ last.trials[k].outcome = last.player
                   \/ (last.trials[k].outcome = EMPTY /\ last.trials[k].full)
        /\ \A k \in 1..Len(last.trials) :
             last.trials[k].outcome = opponent(last.player)
             => ~last.trials[k].recorded)

\* C11: in every one of the N trials of random(), whatever the number of
\* empty cells, the first cell of the shuffled list is assigned to the mover
\* and the following cells alternate opponent, mover, opponent, ...
C11_TrialsStartWithMover ==
    last.cmd = "random"
    => \A k \in 1..Len(last.trials) :
         \A j \in 1..Len(last.trials[k].colours) :
            last.trials[k].colours[j] =
                IF j % 2 = 1 THEN last.player ELSE opponent(last.player)

\* what the last solve recorded: the deadline it ran under, the number of
\* clock reads it made, whether it searched and whether the rescue pass ran
SolveRun == last.trials[1]

\* some recursive call of the last solve found the deadline exceeded
DeadlineFound ==
    /\ last.cmd = "solve"
    /\ SolveRun.searched
    /\ SolveRun.deadline <= MaxClock
    /\ SolveRun.reads > SolveRun.deadline

\* C12: if the deadline is found exceeded at the entry of a recursive search
\* call, in the primary search or in the rescue pass, the outcome solve
\* reports is "unknown".  (Stated for the solves that answer.)
C12_DeadlineGivesUnknown ==
    (DeadlineFound /\ ~last.error) => last.action = "unknown"

\* the events of the last solve, and those of its primary search
SolveLog == IF last.cmd = "solve" THEN SolveRun.log ELSE << >>
PrimaryLog ==
    IF last.cmd = "solve" THEN SubSeq(SolveRun.log, 1, SolveRun.primary.events)
    ELSE << >>

\* the outcome that stands for what detect_five_in_a_row gave on a full board
OutcomeOf(five) ==
    IF five = BLACK THEN "b" ELSE IF five = WHITE THEN "w" ELSE "draw"

\* C13: at a node with no empty cell, minimaxBooleanOR and minimaxBooleanAND
\* return "b" when detect_five_in_a_row gives BLACK, "w" when it gives WHITE
\* and "draw" when it gives EMPTY.
C13_LeafOutcome ==
    \A k \in 1..Len(PrimaryLog) :
        PrimaryLog[k].kind = "leaf"
        => PrimaryLog[k].ret = OutcomeOf(PrimaryLog[k].five)

\* C14: in the primary search every stone minimaxBooleanOR sets at its own
\* level is BLACK and every stone minimaxBooleanAND sets at its own level is
\* WHITE, for every iteration of the loop.  (Stated for the solves no call
\* of which found the deadline exceeded.)
C14_ColourByLevel ==
    (last.cmd = "solve" /\ ~DeadlineFound)
    => \A k \in 1..Len(PrimaryLog) :
          PrimaryLog[k].kind = "play"
          => PrimaryLog[k].colour =
                 IF PrimaryLog[k].fn = "OR" THEN BLACK ELSE WHITE

Decisive(ret) == ret = "b" \/ ret = "w"

\* the stones standing when event k of log happens: those of the iterations
\* whose recursive call has not returned yet
StonesAt(log, k) ==
    { log[j].point : j \in { x \in 1..(k - 1) :
        /\ log[x].kind = "play"
        /\ \A m \in (x + 1)..(k - 1) :
              ~(log[m].kind = "back" /\ log[m].depth = log[x].depth) } }

\* the stone of the play event k is set on the idx-th of the cells, in
\* ascending order, that were empty when its node was entered
InOrderAt(log, b, k) ==
    LET free == EmptyCells(b) \ StonesAt(log, k)
    IN /\ log[k].point \in free
       /\ Cardinality({ q \in free : q < log[k].point }) = log[k].idx - 1
       /\ Cardinality(free) = log[k].n

\* event k + 1 is the first event of a call nested in the call of event k
EntersAt(log, k) ==
    /\ k < Len(log)
    /\ log[k + 1].depth = log[k].depth + 1
    /\ log[k + 1].kind # "back"
    /\ log[k + 1].kind = "play" => log[k + 1].idx = 1

\* the call of event k returns ret to the iteration that made it, or is the
\* call solve made and gives `top`
ReturnsAt(log, k, ret, top) ==
    IF log[k].depth = 0 THEN k = Len(log) /\ ret = top
    ELSE /\ k < Len(log)
         /\ log[k + 1].kind = "back"
         /\ log[k + 1].depth = log[k].depth - 1
         /\ log[k + 1].ret = ret

\* the call of event k goes on with its next iteration
GoesOnAt(log, k) ==
    /\ k < Len(log)
    /\ log[k + 1].kind = "play"
    /\ log[k + 1].fn = log[k].fn
    /\ log[k + 1].depth = log[k].depth
    /\ log[k + 1].idx = log[k].idx + 1

\* the events of a search are those of a walk that tries the children of a
\* node in enumeration order, leaves the node with the result of the first
\* decisive child and otherwise tries every child and leaves with the result
\* of the last
FirstDecisiveWalk(log, b, top) ==
    /\ Len(log) > 0 => (log[1].depth = 0 /\ log[1].kind # "back"
                        /\ (log[1].kind = "play" => log[1].idx = 1))
    /\ \A k \in 1..Len(log) :
          IF log[k].kind = "play"
          THEN InOrderAt(log, b, k) /\ EntersAt(log, k)
          ELSE IF log[k].kind = "back"
          THEN IF Decisive(log[k].ret) \/ log[k].idx = log[k].n
               THEN ReturnsAt(log, k, log[k].ret, top)
               ELSE GoesOnAt(log, k)
          ELSE ReturnsAt(log, k, log[k].ret, top)

ColourOf(ret) == IF ret = "b" THEN BLACK ELSE WHITE

\* the last event of log at which a call returned without iterating: the end
\* of the branch whose result the search returned
BranchEnd(log) ==
    CHOOSE k \in 1..Len(log) :
        /\ log[k].kind \in {"leaf", "expired"}
        /\ \A m \in (k + 1)..Len(log) : log[m].kind = "back"

\* the play events of the stones standing at event k of log
BranchAt(log, k) ==
    { x \in 1..(k - 1) :
        /\ log[x].kind = "play"
        /\ \A m \in (x + 1)..(k - 1) :
              ~(log[m].kind = "back" /\ log[m].depth = log[x].depth) }

\* the cells whose stone, set in the branch that ends at event k, was of
\* colour c and gave five-in-a-row for c
Triggers(log, k, c) ==
    { log[x].point : x \in { y \in BranchAt(log, k) :
                               log[y].colour = c /\ log[y].five = c } }

\* C16: when solve reports a decisive outcome together with a move, the move
\* is the cell whose stone completed five-in-a-row for the reported winner in
\* the branch that produced the outcome.  (Stated for the solves whose rescue
\* pass did not run.)
C16_MoveIsTrigger ==
    (/\ last.cmd = "solve"
     /\ ~last.error
     /\ SolveRun.searched
     /\ ~SolveRun.rescued
     /\ Decisive(last.action)
     /\ last.ret # None)
    => last.ret \in Triggers(PrimaryLog, BranchEnd(PrimaryLog),
                             ColourOf(last.action))

\* the last command was a solve whose primary search gave a win to the
\* opponent of the side to move
PrimaryLostByMover ==
    /\ last.cmd = "solve"
    /\ SolveRun.searched
    /\ Decisive(SolveRun.primary.ret)
    /\ ColourOf(SolveRun.primary.ret) # last.player

\* the events the second search of the last solve made
RescueLog ==
    IF last.cmd = "solve"
    THEN SubSeq(SolveRun.log, SolveRun.primary.events + 1, Len(SolveRun.log))
    ELSE << >>

\* C17: the rescue pass runs exactly when the outcome of the primary search
\* is a win for the opponent of the side to move: not when it is a draw,
\* unknown or a win of the side to move, and not when a five-in-a-row is on
\* the board at the time of the solve.
C17_RescueIffOpponentWins ==
    last.cmd = "solve" =>
        /\ SolveRun.rescued <=> PrimaryLostByMover
        /\ SolveRun.rescued <=> Len(RescueLog) > 0
        /\ ~SolveRun.searched => ~SolveRun.rescued

\* a solve that ran the rescue pass after a primary search lost by the side
\* to move
C17_Witness ==
    /\ last.cmd = "solve"
    /\ SolveRun.rescued
    /\ PrimaryLostByMover
    /\ Len(RescueLog) > 0

\* C18: when the rescue pass runs, the outcome solve reports is a draw or
\* the win of the opponent that the primary search found, never a win of
\* the side to move.  (Stated for the solves that answer.)
C18_RescueNeverWins ==
    (last.cmd = "solve" /\ SolveRun.rescued /\ ~last.error) =>
        /\ last.action \in {"draw", SolveRun.primary.ret}
        /\ ~(Decisive(last.action) /\ ColourOf(last.action) = last.player)

\* C19: the response of solve has one of the documented forms, and a move
\* accompanies the outcome tag exactly when the outcome is a draw or a win
\* of the side to move.  (Stated for the solves that answer.)
C19_MoveIffDrawOrOwnWin ==
    (last.cmd = "solve" /\ ~last.error) =>
        /\ last.action \in {"b", "w", "draw", "unknown"}
        /\ last.ret # None <=>
              \/ last.action = "draw"
              \/ Decisive(last.action) /\ ColourOf(last.action) = last.player

\* the number of empty cells of the board the last command started from
RootEmpty == Len(get_empty_points([size |-> size, board |-> last.pre.board]))

\* event k of log opens a recursive call, which is made on a board with
\* strictly fewer empty cells than that of its caller
ShrinksAt(log, k) ==
    log[k].kind = "play" =>
        /\ k < Len(log)
        /\ log[k + 1].depth = log[k].depth + 1
        /\ log[k + 1].n < log[k].n

\* C20: solve terminates: each recursive call of the search is made on a
\* board with strictly fewer empty cells than its caller, the depth of the
\* recursion never exceeds the number of empty cells at the root, and the
\* search returns to solve with an outcome.
C20_SearchDescends ==
    (last.cmd = "solve" /\ SolveRun.searched) =>
        /\ \A k \in 1..Len(SolveLog) :
              /\ ShrinksAt(SolveLog, k)
              /\ SolveLog[k].depth <= RootEmpty
        /\ Len(PrimaryLog) > 0
        /\ PrimaryLog[Len(PrimaryLog)].depth = 0
        /\ PrimaryLog[Len(PrimaryLog)].ret = SolveRun.primary.ret
        /\ SolveRun.primary.ret \in {"b", "w", "draw", "unknown"}

\* a search of a board with MaxEmpty empty cells that went down to the full
\* board
C20_Witness ==
    /\ last.cmd = "solve"
    /\ SolveRun.searched
    /\ RootEmpty = MaxEmpty
    /\ \E k \in 1..Len(SolveLog) :
          /\ SolveLog[k].kind = "leaf"
          /\ SolveLog[k].depth = MaxEmpty

\* the outcome tag of a win of colour c
TagOf(c) == IF c = BLACK THEN "b" ELSE "w"

\* the last command was a solve that searched to the end, started with the
\* side to move holding an empty cell that completes five-in-a-row for it
OwnWinAtHand ==
    /\ last.cmd = "solve"
    /\ SolveRun.searched
    /\ ~DeadlineFound
    /\ WinCells(last.pre.board, size, last.player) # {}

\* C29: if the side to move has an empty cell that completes five-in-a-row
\* for it in one move and the deadline does not expire, solve reports that
\* side as the winner and recommends a cell that completes five-in-a-row
\* for it.
C29_ImmediateWinReported ==
    OwnWinAtHand =>
        /\ ~last.error
        /\ last.action = TagOf(last.player)
        /\ last.ret \in WinCells(last.pre.board, size, last.player)

\* C30: whenever solve responds with a move, that move is a cell that is
\* empty on the board at the time of that solve, and solve never fails for
\* lack of a recorded move.  (Stated for the solves whose clock does not
\* run out.)
C30_MoveFromThisSolve ==
    (last.cmd = "solve" /\ ~DeadlineFound) =>
        /\ ~last.error
        /\ last.ret # None => last.pre.board[last.ret] = EMPTY

\* the colour a genmove was asked for
GenmoveColour == color_to_int(Lower(last.args[1]))

\* the last command was a genmove for black or white on a board with no
\* five-in-a-row and an empty cell, black or white being to move
GenmoveDue ==
    /\ last.cmd = "genmove"
    /\ GenmoveColour \in {BLACK, WHITE}
    /\ last.pre.current_player \in {BLACK, WHITE}
    /\ NoFive(last.pre.board, size)
    /\ EmptyCells(last.pre.board) # {}

\* the candidates of the selected policy on the board the last genmove
\* started from, for the colour c and the shuffle sh of that genmove
CascadeOn(b, c, sh, pol) ==
    IF pol = "rule_based"
    THEN rule_based([size |-> size, board |-> b, current_player |-> c,
                     moves |-> << >>], sh).moves
    ELSE random([size |-> size, board |-> b, current_player |-> c,
                 moves |-> << >>], sh).ret

\* the candidates are cands and the cell played is the first of them
FirstCandidate(cands, point) == Len(cands) > 0 /\ cands[1] = point

\* C22: a genmove for colour c on a board with no five-in-a-row and at least
\* one empty cell places exactly one stone of colour c on a cell that was
\* empty, that cell being the first candidate of the cascade evaluated on the
\* current board, and leaves the opponent of c as the player to move.
C22_GenmovePlaysFirstCandidate ==
    GenmoveDue =>
        /\ ~last.error
        /\ last.answer = "move"
        /\ last.ret # None
        /\ last.pre.board[last.ret] = EMPTY
        /\ board = [last.pre.board EXCEPT ![last.ret] = GenmoveColour]
        /\ current_player = opponent(GenmoveColour)
        /\ FirstCandidate(CascadeOn(last.pre.board, GenmoveColour,
                                    last.args[2], last.pre.policy), last.ret)

\* the last command was a play, in one of the variants of the command layer
IsPlay == last.cmd = "play" \/ last.cmd = "play1"

\* the point a play with a coordinate inside the board aimed at, None else
PlayTarget ==
    IF IsPlay /\ move_to_coord(last.args[2], size).kind = "coord"
    THEN coord_to_point(move_to_coord(last.args[2], size).row,
                        move_to_coord(last.args[2], size).col, size)
    ELSE None

\* the last command was a play of black or white on an occupied cell of the
\* board
PlayOnOccupied ==
    /\ IsPlay
    /\ Lower(last.args[1]) \in {"b", "w"}
    /\ PlayTarget # None
    /\ last.pre.board[PlayTarget] # EMPTY

\* C23: a play command that targets an occupied interior cell is rejected
\* with an 'occupied' report, and neither any cell of the board nor the
\* current player changes.
C23_OccupiedRejected ==
    PlayOnOccupied =>
        /\ last.answer = "occupied"
        /\ board = last.pre.board
        /\ current_player = last.pre.current_player

\* a play on an occupied cell, refused, after another play
C23_Witness ==
    /\ PlayOnOccupied
    /\ last.cmd = "play"
    /\ prev.cmd = "play"
    /\ last.answer = "occupied"

\* the last command was a play whose coordinate has a column or a row
\* outside 1..size, or whose colour is not black or white
PlayMalformed ==
    /\ IsPlay
    /\ \/ move_to_coord(last.args[2], size).kind \notin {"coord", "pass"}
       \/ Lower(last.args[1]) \notin {"b", "w"}

\* C24: a play command whose coordinate has a column or row outside 1..size,
\* or whose colour is not black or white, is rejected before the board is
\* touched: no cell and not the current player changes.
C24_MalformedRejected ==
    PlayMalformed =>
        /\ last.answer # ""
        /\ ~last.core
        /\ board = last.pre.board
        /\ current_player = last.pre.current_player

\* the last command was a play of black or white that was accepted, black or
\* white being to move
PlayAccepted ==
    /\ IsPlay
    /\ Lower(last.args[1]) \in {"b", "w"}
    /\ last.pre.current_player \in {BLACK, WHITE}
    /\ last.answer = ""

\* C25: after every accepted play command the current player is the opposite
\* of what it was immediately before the command, including when the colour
\* played is not that of the player whose turn it was.
C25_AcceptedPlayFlips ==
    PlayAccepted => current_player = opponent(last.pre.current_player)

\* the last command was a play of black or white with the move PASS, black
\* or white being to move
PlayPass ==
    /\ IsPlay
    /\ last.args[2].pass
    /\ Lower(last.args[1]) \in {"b", "w"}
    /\ last.pre.current_player \in {BLACK, WHITE}

\* C26: a play command with the move PASS is accepted in every variant of
\* the command layer, leaves every cell of the board unchanged, and changes
\* the current player.
C26_PassAccepted ==
    PlayPass =>
        /\ last.answer = ""
        /\ board = last.pre.board
        /\ current_player # last.pre.current_player

PolicyNames == {"rule_based", "random"}

\* C27: a policy command with a name other than "rule_based" or "random" is
\* reported as an error and leaves the selected policy and the board
\* unchanged; after any sequence of policy commands the selected policy is
\* one of those two names.
C27_PolicyStaysValid ==
    /\ policy \in PolicyNames
    /\ (last.cmd = "policy" /\ last.args[1] \notin PolicyNames) =>
          /\ last.answer = "ERROR"
          /\ policy = last.pre.policy
          /\ board = last.pre.board
          /\ current_player = last.pre.current_player
    /\ (last.cmd = "policy" /\ last.args[1] \in PolicyNames) =>
          /\ last.answer = ""
          /\ policy = last.args[1]

\* an unknown name refused after the policy had been changed to "random", and
\* followed by nothing else yet
C27_Witness ==
    /\ last.cmd = "policy"
    /\ last.args[1] \notin PolicyNames
    /\ last.answer = "ERROR"
    /\ prev.cmd = "policy"
    /\ policy = "random"

\* every interior cell of b holds EMPTY, BLACK or WHITE and every other cell
\* of the store holds BORDER
WellFormed(b, n) ==
    \A p \in DOMAIN b :
        IF IsInterior(p, n) THEN b[p] \in {EMPTY, BLACK, WHITE}
        ELSE b[p] = BORDER

\* the colours the rollouts of the last command placed
RolloutColours ==
    IF last.cmd \in {"genmove", "policy_moves"}
    THEN UNION { SeqSet(last.trials[k].colours) : k \in 1..Len(last.trials) }
    ELSE {}

SolveOnEmpty3 ==
    /\ last.cmd = "solve"
    /\ size = Size3
    /\ last.pre.board = EmptyBoard(Size3)

\* C21 as stated: on a fully empty 3x3 board solve returns a decisive outcome
\* (Black wins or White wins) when the search completes before the deadline,
\* and "unknown" only when the deadline expires first.
C21_EmptyBoardDecisive ==
    SolveOnEmpty3 =>
        /\ ~DeadlineFound => (~last.error /\ last.action \in {"b", "w"})
        /\ last.action = "unknown" => DeadlineFound

\* C21, amended: on a fully empty 3x3 board a solve whose search completes
\* before the deadline answers "draw" with a cell of the board that was
\* empty, and "unknown" is answered only when the deadline expired first;
\* inside the search, a call that returns before the deadline returns
\* "draw" and a call returns "unknown" only once the deadline is exceeded.
C21_EmptyBoardDraw ==
    /\ (solver.pc = "return" /\ ~Expired(solver.reads, solver.deadline))
          => solver.ret = "draw"
    /\ (solver.pc = "return" /\ solver.ret = "unknown")
          => Expired(solver.reads, solver.deadline)
    /\ SolveOnEmpty3 =>
          /\ ~DeadlineFound =>
                /\ ~last.error
                /\ last.action = "draw"
                /\ IsInterior(last.ret, size)
                /\ last.pre.board[last.ret] = EMPTY
                /\ board = last.pre.board
          /\ last.action = "unknown" => DeadlineFound

\* a solve on the empty board whose search visited every filling of the
\* board without the deadline expiring
C21_Witness ==
    /\ SolveOnEmpty3
    /\ ~DeadlineFound
    /\ SolveRun.searched
    /\ SolveRun.reads > MaxClock
    /\ last.action = "draw"

\* C31: the solve command leaves the board's current player equal to its
\* value before the command, for every board and every outcome of the search.
C31_SolveKeepsPlayer ==
    last.cmd = "solve" => current_player = last.pre.current_player

\* the last command is a genmove of assignment2 on a board with no five in a
\* row and at least one empty cell
Genmove2Due ==
    /\ last.cmd = "genmove2"
    /\ NoFive(last.pre.board, size)
    /\ EmptyCells(last.pre.board) # {}

\* C32: in assignment2, after any preceding sequence of commands (none, or
\* an earlier solve or genmove), genmove for colour c on a board with no
\* five in a row and at least one empty cell places one stone of colour c on
\* a cell that was empty and answers with that cell; it never answers
\* "Illegal move" and never fails on a missing or stale recorded move.
C32_Genmove2PlacesStone ==
    Genmove2Due =>
        /\ ~last.error
        /\ last.answer = "move"
        /\ IsInterior(last.ret, size)
        /\ last.pre.board[last.ret] = EMPTY
        /\ board = [last.pre.board EXCEPT
                       ![last.ret] = color_to_int(Lower(last.args[1]))]

\* the last command started from a board on which a colour has five in a row
FiveBefore ==
    /\ last.cmd \in {"genmove2", "gogui-rules_legal_moves"}
    /\ ~NoFive(last.pre.board, size)

\* C33: once either colour has five in a row on the board, genmove for
\* either colour places no stone (it answers resign or pass and leaves every
\* cell unchanged) and gogui-rules_legal_moves reports no legal move.
\* (Stated for the commands of assignment2.)
C33_NoMoveAfterFive ==
    FiveBefore =>
        /\ last.cmd = "genmove2" =>
              /\ ~last.error
              /\ last.answer \in {"resign", "pass"}
              /\ board = last.pre.board
        /\ last.cmd = "gogui-rules_legal_moves" => last.response = << >>

\* the last command is a gogui-rules_final_result of either variant
IsFinalResult ==
    last.cmd \in {"gogui-rules_final_result", "gogui-rules_final_result1"}

\* the colours that have five in a row on board b, as answers
FiveAnswers(b, n) ==
    { a \in {"black", "white"} :
        FiveOf(b, n, IF a = "black" THEN BLACK ELSE WHITE) }

\* C34: for every board, gogui-rules_final_result of assignment2/3 gives the
\* same answer as that of assignment1: "black" or "white" whenever that
\* colour has five in a row (also when the board is full), "draw" only when
\* the board is full with no five in a row, and "unknown" otherwise.
C34_FinalResultAgrees ==
    IsFinalResult =>
        /\ last.answer = gogui_rules_final_result1(Self)
        /\ IF FiveAnswers(board, size) # {}
           THEN last.answer \in FiveAnswers(board, size)
           ELSE last.answer = IF EmptyCells(board) = {} THEN "draw"
                              ELSE "unknown"

\* What each argument text of TimeTexts denotes, written out: the integer it
\* stands for, or None when it is not an integer.
TimeMeaning ==
    (<< "1" >> :> 1) @@ (<< "7" >> :> 7) @@ (<< "1", "0", "0" >> :> 100) @@
    (<< "0", "4", "2" >> :> 42) @@ (<< "+", "9" >> :> 9) @@
    (<< "1", "_", "0" >> :> 10) @@
    (<< "0" >> :> 0) @@ (<< "1", "0", "1" >> :> 101) @@
    (<< "-", "5" >> :> 0 - 5) @@ (<< "9", "9", "9" >> :> 999) @@
    (<< "5", ".", "5" >> :> None) @@ (<< "a", "b", "c" >> :> None) @@
    (<< "1", "e", "1" >> :> None) @@ (<< "_", "3" >> :> None) @@
    (<< "-" >> :> None)

TimeAccepted(args) ==
    /\ args # << >>
    /\ TimeMeaning[args[1]] # None
    /\ TimeMeaning[args[1]] \in 1..100

\* C35: the time limit is always an integer from 1 to 100; a timelimit command
\* whose argument is missing, is not an integer or lies outside 1..100 is
\* answered with an error and leaves the limit as it was, and one whose
\* argument is an integer from 1 to 100 makes that integer the limit.
C35_TimelimitInRange ==
    /\ solver.timelimit \in 1..100
    /\ last.cmd = "timelimit" =>
          IF TimeAccepted(last.args)
          THEN /\ solver.timelimit = TimeMeaning[last.args[1]]
               /\ last.answer = ""
          ELSE /\ solver.timelimit = last.pre.solver.timelimit
               /\ last.answer \in {TimelimitRange, TimelimitNumber}

\* A limit of 100 set earlier has survived a rejected command.
C35_Witness ==
    /\ last.cmd = "timelimit"
    /\ ~TimeAccepted(last.args)
    /\ last.args # << >>
    /\ TimeMeaning[last.args[1]] = 101
    /\ solver.timelimit = 100
    /\ last.answer = TimelimitRange

\* C36: the candidate list returned by random() holds no cell twice, every
\* candidate is a cell that was empty when random() was called, and the list
\* is not empty when the board then had an empty cell and no five-in-a-row.
C36_RandomCandidates ==
    last.cmd = "random"
    => (/\ \A i, j \in 1..Len(last.cands) :
              i # j => last.cands[i] # last.cands[j]
        /\ \A c \in SeqSet(last.cands) : last.pre.board[c] = EMPTY
        /\ (NoFive(last.pre.board, size)
            /\ \E p \in DOMAIN last.pre.board : last.pre.board[p] = EMPTY)
           => Len(last.cands) > 0)

\* random() on a board with empty cells and no five-in-a-row, where more than
\* one trial recorded its first cell and the list returned holds it once.
C36_Witness ==
    /\ last.cmd = "random"
    /\ NoFive(last.pre.board, size)
    /\ Len(last.cands) = 1
    /\ last.pre.board[last.cands[1]] = EMPTY
    /\ Cardinality({k \in 1..Len(last.trials) : last.trials[k].recorded}) > 1

\* C37: policy_moves on a board whose size*size cells are all empty reports
\* the action Random with every cell as a candidate, under either policy and
\* without a rollout; on a board with no empty cell it reports nothing; in
\* both cases the board and the player to move are as before the command.
C37_OpeningAndFullBoard ==
    last.cmd = "policy_moves"
    => (/\ last.pre.board = EmptyBoard(size)
           => (/\ last.action = "Random"
               /\ Len(last.cands) = size * size
               /\ SeqSet(last.cands) = { p \in Points(size) : IsInterior(p, size) }
               /\ { << c.number, c.letter >> : c \in SeqSet(last.response) }
                      = (1..size) \X (1..size)
               /\ last.trials = << >>
               /\ board = last.pre.board
               /\ current_player = last.pre.current_player)
        /\ EmptyCells(last.pre.board) = {}
           => (/\ last.action = ""
               /\ last.cands = << >>
               /\ last.response = << >>
               /\ last.trials = << >>
               /\ board = last.pre.board
               /\ current_player = last.pre.current_player))

\* policy_moves on the all-empty board with the policy random selected
C37_Witness ==
    /\ last.cmd = "policy_moves"
    /\ last.pre.board = EmptyBoard(size)
    /\ last.pre.policy = "random"
    /\ last.action = "Random"
    /\ Len(last.cands) = size * size

====
